---- MODULE Spec2Model ----
(***************************************************************************)
(* Workstream coordinator (WorkstreamManager), its transport client        *)
(* (AcpClient) and the git working-copy provider (GitWorktreeManager).     *)
(*                                                                         *)
(* Execution model: one JavaScript thread.  An action is one synchronous   *)
(* run of code: an operator command up to its first real suspension, the   *)
(* completion of one fetch, the dispatch of one inbound SSE envelope, or   *)
(* the continuation of one async function whose awaited promise settled.   *)
(* Continuations of settled promises are microtasks: they run before the   *)
(* next operator command or fetch completion; only further envelopes of    *)
(* the same SSE chunk can be dispatched before them.                       *)
(***************************************************************************)
EXTENDS Integers, Sequences, FiniteSets, TLC

\* ------------------------------------------------------------- bounds
MaxWs == 2          \* workstreams created in the isolation specification
MaxReq == 4         \* outbound request ids per client (1 = initialize, 2 = session/new)
MaxPeerId == 2      \* ids the remote may choose for its own requests
MaxHist == 3        \* messages kept per workstream
MaxInbound == 4     \* inbound envelopes per session (lifecycle)
StreamInbound == 5  \* inbound envelopes per session (session-update stream)
ToolInbound == 5    \* inbound envelopes per session (tool calls)
MaxContent == 3     \* characters kept in one message
MaxNotif == 2       \* notifications kept per workstream
MaxClock == 2        \* readings of the wall clock after the first
MaxNameLen == 52    \* characters of the longest raw name

NoId == 0           \* an envelope without "id"; a null session id

\* ------------------------------------------------------------- state
VARIABLES
  workstreams,          \* WorkstreamManager.workstreams: id -> Workstream
  clients,              \* keys of WorkstreamManager.clients
  acpSessionIds,        \* WorkstreamManager.acpSessionIds: id -> session id
  activeTools,          \* WorkstreamManager.activeTools: id -> (tool id -> status)
  pendingPermissions,   \* WorkstreamManager.pendingPermissions: id -> request id
  permissionResolvers,  \* WorkstreamManager.permissionResolvers: id -> handler instance
  useWorktrees,         \* config.useWorktrees (worktreeManager # null)
  isGitRepo,            \* result of GitWorktreeManager.isGitRepo()
  client,               \* the AcpClient object made for each workstream id
  tasks,                \* suspended async calls (createWorkstream, sendPrompt, handlers)
  sent,                 \* envelopes POSTed to /acp/session/{id}/message in the last step
  inbound,              \* number of envelopes the event stream of a client delivered
  worktreeDirs,         \* working copies on disk: name under .goose-worktrees -> the
                        \* workstream whose createWorktree call made the directory
  branches,             \* names n whose branch goose/n exists
  nextId,               \* next workstream id to mint (uuidv4: never reused)
  eventHandlers,        \* WorkstreamManager.eventHandlers: the observers, in order
  received,             \* what each observer's callback was called with, in order
  events,               \* emit() calls of the last step, each with what a callback reads
  ret,                  \* outcome of the operator call made or finished in the last step,
                        \* with the calls it made to the transport and the provider
  now                   \* the wall clock new Date() reads

vars == << workstreams, clients, acpSessionIds, activeTools, pendingPermissions,
           permissionResolvers, useWorktrees, isGitRepo, client, tasks, sent,
           inbound, worktreeDirs, branches, nextId, eventHandlers, received, events,
           ret, now >>

\* ------------------------------------------------------------- helpers
Put(f, k, v) == [x \in DOMAIN f \cup {k} |-> IF x = k THEN v ELSE f[x]]

Drop(f, k) == [x \in DOMAIN f \ {k} |-> f[x]]

Empty == [x \in {} |-> 0]

NoRet == [op |-> "none", ws |-> NoId, err |-> "none", calls |-> << >>]

Ret(op, w, err) == [op |-> op, ws |-> w, err |-> err, calls |-> << >>]

\* Raw names an operator may type, as character sequences.
RawNames == { <<"a">>, <<"A">>, <<"a", " ">>, <<"a", "_">>, <<"b">> }

Letters ==
  << "a", "b", "c", "d", "e", "f", "g", "h", "i", "j", "k", "l", "m",
     "n", "o", "p", "q", "r", "s", "t", "u", "v", "w", "x", "y", "z" >>

Capitals ==
  << "A", "B", "C", "D", "E", "F", "G", "H", "I", "J", "K", "L", "M",
     "N", "O", "P", "Q", "R", "S", "T", "U", "V", "W", "X", "Y", "Z" >>

Digits == { "0", "1", "2", "3", "4", "5", "6", "7", "8", "9" }

\* toLowerCase() of one character.
Lower(c) ==
  IF \E i \in 1..Len(Capitals) : Capitals[i] = c
  THEN Letters[CHOOSE i \in 1..Len(Capitals) : Capitals[i] = c]
  ELSE c

\* The characters /[^a-z0-9-]/ leaves alone.
SafeChars == { Letters[i] : i \in 1..Len(Letters) } \cup Digits \cup { "-" }

NameLimit == 50

\* A variant of the sanitizer without slice(0, 50).
SanitizeNoSlice(name) ==
  [i \in 1..Len(name) |-> IF Lower(name[i]) \in SafeChars THEN Lower(name[i]) ELSE "-"]

\* name.toLowerCase().replace(/[^a-z0-9-]/g, '-').slice(0, 50)
Sanitize(name) ==
  LET lowered == [i \in 1..Len(name) |-> Lower(name[i])]
      replaced == [i \in 1..Len(name) |-> IF lowered[i] \in SafeChars THEN lowered[i] ELSE "-"]
  IN  SubSeq(replaced, 1, IF Len(replaced) < NameLimit THEN Len(replaced) ELSE NameLimit)

\* updateWorkstream(id, updates): Object.assign on the record if it is in the table.
UpdateWorkstream(tbl, id, updates) ==
  IF id \in DOMAIN tbl
  THEN [tbl EXCEPT ![id] = [f \in DOMAIN tbl[id] |->
                              IF f = "lastActivity" THEN now
                              ELSE IF f \in DOMAIN updates THEN updates[f]
                              ELSE tbl[id][f]]]
  ELSE tbl

\* What an observer callback receives from emit(), with the coordinator state it
\* can read through getWorkstream / getPendingPermission while it runs.
Event(w, type, src, tbl, pend, res) ==
  [ ws |-> w, type |-> type, src |-> src,
    status |-> IF w \in DOMAIN tbl THEN tbl[w].status ELSE "absent",
    pending |-> IF w \in DOMAIN pend THEN pend[w] ELSE NoId,
    resolver |-> IF w \in DOMAIN res THEN res[w] ELSE NoId ]

\* addNotification: push on the record if present, then emit.
AddNotification(tbl, w, type) ==
  IF w \in DOMAIN tbl
  THEN [tbl EXCEPT ![w].notifications = Append(@, type)]
  ELSE tbl

\* worktreePath / branchName of a record: null, or the value createWorktree returned.
Null == << "null" >>

WorktreePath(name) == << ".goose-worktrees/" >> \o name

BranchName(name) == << "goose/" >> \o name

NewWorkstream(name) ==
  [ name |-> name, status |-> "starting", worktreePath |-> Null, branchName |-> Null,
    acpSessionId |-> NoId, lastActivity |-> now,
    currentActivity |-> "Initializing...", notifications |-> << >>, messageHistory |-> << >> ]

\* An envelope POSTed to the remote: a request of ours, or a reply to a request of the peer.
Post(w, kind, id, payload, ok) ==
  [ ws |-> w, kind |-> kind, id |-> id, payload |-> payload, ok |-> ok, cwd |-> Null ]

Plain == { "o1" }

\* Observers whose callback calls its own deregister handle (a listener for one event).
Once == { "x1" }

Observers == Plain \cup Once

\* The number of times observer o is in the handler list.
Copies(o) == Cardinality({ i \in 1..Len(eventHandlers) : eventHandlers[i] = o })

\* What one handler registered n times is called with while evs are emitted: every
\* event, once per registration.
Calls(evs, n) ==
  [k \in 1..(Len(evs) * n) |->
     LET e == evs[((k - 1) \div n) + 1]
     IN  [ws |-> e.ws, type |-> e.type, src |-> e.src]]

\* The deregister handle of handler h applied to the list: indexOf and splice.
Spliced(list, h) ==
  IF \A i \in 1..Len(list) : list[i] # h THEN list
  ELSE LET idx == CHOOSE i \in 1..Len(list) :
                    list[i] = h /\ \A j \in 1..(i - 1) : list[j] # h
       IN  SubSeq(list, 1, idx - 1) \o SubSeq(list, idx + 1, Len(list))

\* emit(workstreamId, e) from position i of the handler list on: "for (const handler
\* of this.eventHandlers)" reads the list by index, also after a callback spliced it.
RECURSIVE EmitFrom(_, _, _, _)
EmitFrom(list, rec, e, i) ==
  IF i > Len(list) THEN [handlers |-> list, received |-> rec]
  ELSE LET h == list[i]
           called == [rec EXCEPT ![h] =
                        Append(@, [ws |-> e.ws, type |-> e.type, src |-> e.src])]
       IN  EmitFrom(IF h \in Once THEN Spliced(list, h) ELSE list, called, e, i + 1)

\* The emit calls of one step, in order.
RECURSIVE EmitAll(_, _, _, _)
EmitAll(list, rec, evs, k) ==
  IF k > Len(evs) THEN [handlers |-> list, received |-> rec]
  ELSE LET one == EmitFrom(list, rec, evs[k], 1)
       IN  EmitAll(one.handlers, one.received, evs, k + 1)

\* A variant of emit that keeps calling handlers that are no longer in the list.
DeliveredToAll(evs) ==
  [ handlers |-> eventHandlers,
    received |-> [o \in Observers |-> received[o] \o Calls(evs, 1)] ]

\* emit(workstreamId, event) for each event of a step: the handler list and what
\* each observer was called with afterwards.
Delivered(evs) ==
  EmitAll(eventHandlers, received, evs, 1)

NewClient ==
  [ sessionId |-> NoId, eventSource |-> FALSE, requestId |-> 0,
    pendingRequests |-> {}, requestHandlers |-> {} ]

Task(kind, w, pc, req) ==
  [ kind |-> kind, ws |-> w, pc |-> pc, req |-> req, ready |-> "no", via |-> "none",
    val |-> "none", src |-> NoId, cwd |-> Null ]

\* config.repoPath
RepoPath == << "repo" >>

\* The cwd connectWorkstream gives to session/new, from the record it holds.
Cwd(ws) == IF ws.worktreePath # Null THEN ws.worktreePath ELSE RepoPath

\* No continuation is runnable: the microtask queue is empty.
Quiet == \A t \in tasks : t.ready = "no"

Minted == 1..(nextId - 1)

\* ------------------------------------------------------------- Init
Init ==
  /\ workstreams = Empty
  /\ clients = {}
  /\ acpSessionIds = Empty
  /\ activeTools = Empty
  /\ pendingPermissions = Empty
  /\ permissionResolvers = Empty
  /\ useWorktrees \in BOOLEAN
  /\ isGitRepo \in BOOLEAN
  /\ client = Empty
  /\ tasks = {}
  /\ sent = << >>
  /\ inbound = Empty
  /\ worktreeDirs = Empty
  /\ branches = {}
  /\ nextId = 1
  /\ eventHandlers = << >>
  /\ received = [o \in Observers |-> << >>]
  /\ events = << >>
  /\ ret = NoRet
  /\ now = 0

\* ------------------------------------------------------------- working copies
\* GitWorktreeManager.removeWorktree(name): "git worktree remove --force" when the
\* directory exists (it may fail and throw), then "git branch -D" (failure ignored).
\* Gives the directories and branches left, and whether it threw.
RemoveWorktree(dirs, brs, name, gitOk) ==
  IF name \in DOMAIN dirs /\ ~gitOk
  THEN [dirs |-> dirs, brs |-> brs, threw |-> TRUE]
  ELSE [dirs |-> Drop(dirs, name), brs |-> brs \ {name}, threw |-> FALSE]

\* GitWorktreeManager.createWorktree(name) called for workstream id: remove what
\* exists under the name, create the branch (failure ignored), "git worktree add"
\* (it may fail and throw).
CreateWorktree(dirs, brs, name, id, rmOk, addOk) ==
  LET removed == IF name \in DOMAIN dirs
                 THEN RemoveWorktree(dirs, brs, name, rmOk)
                 ELSE [dirs |-> dirs, brs |-> brs, threw |-> FALSE]
  IN  IF removed.threw
      THEN removed
      ELSE IF addOk
           THEN [dirs |-> Put(removed.dirs, name, id), brs |-> removed.brs \cup {name},
                 threw |-> FALSE]
           ELSE [dirs |-> removed.dirs, brs |-> removed.brs \cup {name}, threw |-> TRUE]

\* ------------------------------------------------------------- createWorkstream
\* A variant of the update after createWorktree that records the path only.
WorktreeFieldsPathOnly(name) == [worktreePath |-> WorktreePath(name)]

\* The update createWorkstream makes after createWorktree returned.
WorktreeFields(name) ==
  [worktreePath |-> WorktreePath(name), branchName |-> BranchName(name)]

\* A variant of the catch block around createWorktree that gives the workstream up.
WorktreeFailedFatal(tbl, id) ==
  UpdateWorkstream(tbl, id, [status |-> "error", currentActivity |-> "Error"])

\* The catch block around createWorktree: an error notification, nothing else.
WorktreeFailed(tbl, id) ==
  AddNotification(
    UpdateWorkstream(tbl, id, [currentActivity |-> "Creating git worktree..."]),
    id, "error")

\* createWorkstream(name, task) up to its first real suspension, the fetch inside
\* client.connect(): mint the id, insert the record, create the working copy (the
\* provider runs git synchronously; its awaits are microtask hops), then the
\* synchronous head of connectWorkstream: new client, handlers, connect().
CreateWorkstream(raw, rmOk, addOk) ==
  /\ Quiet
  /\ LET id == nextId
         name == Sanitize(raw)
         tbl0 == Put(workstreams, id, NewWorkstream(name))
         withWt == useWorktrees /\ isGitRepo
         wt == CreateWorktree(worktreeDirs, branches, name, id, rmOk, addOk)
         tbl1 == IF ~withWt THEN tbl0
                 ELSE IF ~wt.threw
                      THEN UpdateWorkstream(tbl0, id, WorktreeFields(name))
                      ELSE WorktreeFailed(tbl0, id)
         tbl2 == UpdateWorkstream(tbl1, id, [currentActivity |-> "Connecting to server..."])
     IN  /\ (~withWt => rmOk /\ addOk)
         /\ (name \notin DOMAIN worktreeDirs => rmOk)
         /\ workstreams' = tbl2
         /\ activeTools' = Put(activeTools, id, Empty)
         /\ worktreeDirs' = IF withWt THEN wt.dirs ELSE worktreeDirs
         /\ branches' = IF withWt THEN wt.brs ELSE branches
         /\ clients' = clients \cup {id}
         /\ client' = Put(client, id,
                          [NewClient EXCEPT !.requestHandlers = {"request_permission"}])
         /\ inbound' = Put(inbound, id, 0)
         /\ tasks' = tasks \cup {[Task("create", id, "connect", NoId)
                                     EXCEPT !.cwd = Cwd(tbl2[id])]}
         /\ events' = IF withWt /\ wt.threw
                      THEN << Event(id, "notification", NoId, tbl1, pendingPermissions,
                                    permissionResolvers) >>
                      ELSE << >>
         /\ nextId' = nextId + 1
         /\ ret' = NoRet
  /\ UNCHANGED << acpSessionIds, pendingPermissions, permissionResolvers, useWorktrees,
                  isGitRepo >>
  /\ sent' = << >>
  /\ received' = Delivered(events').received
  /\ eventHandlers' = Delivered(events').handlers
  /\ UNCHANGED now

\* A variant of the catch block of createWorkstream that emits nothing.
CreateFailedQuiet(w, tsk, src, cl, out) ==
  /\ workstreams' = UpdateWorkstream(workstreams, w,
                      [status |-> "error", currentActivity |-> "Error"])
  /\ events' = << >>
  /\ ret' = Ret("createWorkstream", w, "failed")
  /\ tasks' = tasks \ {tsk}
  /\ client' = cl
  /\ sent' = out

\* The catch block of createWorkstream: state error, emit 'error', re-raise.  src is
\* the arrival number of the envelope whose error (or unusable result) is reported,
\* NoId when the failure is one of our own calls (connect, a rejected POST).
CreateFailed(w, tsk, src, cl, out) ==
  LET tbl == UpdateWorkstream(workstreams, w,
               [status |-> "error", currentActivity |-> "Error"])
  IN  /\ workstreams' = tbl
      /\ events' = << Event(w, "error", src, tbl, pendingPermissions,
                            permissionResolvers) >>
      /\ ret' = Ret("createWorkstream", w, "failed")
      /\ tasks' = tasks \ {tsk}
      /\ client' = cl
      /\ sent' = out

\* A variant of sendRequest without the session check: it takes an id, registers it
\* and POSTs whatever the session id is.
SendRequestUnchecked(c, w, method, postOk) ==
  LET id == c.requestId + 1
  IN  [ client |-> [c EXCEPT !.requestId = id, !.pendingRequests = @ \cup {id}],
        sent |-> << Post(w, "request", id, method, postOk) >>,
        id |-> id,
        threw |-> ~postOk ]

\* AcpClient.sendRequest(method) on client object c: 'Not connected' without a
\* session id; else take the next id, register it as pending, POST the envelope.
\* The pending entry is made before the POST and is not removed when the POST fails.
SendRequest(c, w, method, postOk) ==
  IF c.sessionId = NoId
  THEN [client |-> c, sent |-> << >>, id |-> NoId, threw |-> TRUE]
  ELSE LET id == c.requestId + 1
       IN  [ client |-> [c EXCEPT !.requestId = id,
                                  !.pendingRequests = @ \cup {id}],
             sent |-> << Post(w, "request", id, method, postOk) >>,
             id |-> id,
             threw |-> ~postOk ]

\* The fetch of client.connect() completes: on success the session id is stored and
\* the event stream opened, and connectWorkstream goes on to send 'initialize'.
ConnectDone(w, ok, postOk) ==
  /\ Quiet
  /\ \E tsk \in tasks :
       /\ tsk.kind = "create" /\ tsk.ws = w /\ tsk.pc = "connect"
       /\ IF ~ok
          THEN /\ postOk
               /\ CreateFailed(w, tsk, NoId, client, << >>)
          ELSE LET c1 == [client[w] EXCEPT !.sessionId = w, !.eventSource = TRUE]
                   rq == SendRequest(c1, w, "initialize", postOk)
                   cl == [client EXCEPT ![w] = rq.client]
               IN  IF rq.threw
                   THEN CreateFailed(w, tsk, NoId, cl, rq.sent)
                   ELSE /\ client' = cl
                        /\ sent' = rq.sent
                        /\ tasks' = (tasks \ {tsk})
                                      \cup {[Task("create", w, "initialize", rq.id)
                                               EXCEPT !.cwd = tsk.cwd]}
                        /\ events' = << >>
                        /\ ret' = NoRet
                        /\ UNCHANGED workstreams
  /\ UNCHANGED << clients, acpSessionIds, activeTools, pendingPermissions,
                  permissionResolvers, useWorktrees, isGitRepo, inbound, worktreeDirs,
                  branches, nextId >>
  /\ received' = Delivered(events').received
  /\ eventHandlers' = Delivered(events').handlers
  /\ UNCHANGED now

\* ------------------------------------------------------------- inbound envelopes
\* An AcpMessage as the event stream delivers it.  id = NoId: no "id" field;
\* method = "none": no "method" field; update is params.update.sessionUpdate;
\* text is update.content.text ("" when absent); tool / status are the tool-call
\* fields; error says whether an "error" member is present.
Envelope(id, method, update, text, tool, status, error) ==
  [ id |-> id, method |-> method, update |-> update, text |-> text, tool |-> tool,
    status |-> status, error |-> error ]

Response(id, error) == Envelope(id, "none", "none", << >>, "none", "none", error)

PermissionRequest(id) ==
  Envelope(id, "request_permission", "none", << >>, "none", "none", FALSE)

Update(kind, text, tool, status) ==
  Envelope(NoId, "session/update", kind, text, tool, status, FALSE)

\* parseSessionUpdate(message).type
ParseSessionUpdate(m) ==
  IF m.method = "session/update" /\ m.update = "agent_message_chunk" THEN "text"
  ELSE IF m.method = "session/update" /\ m.update = "agent_thought_chunk" THEN "thought"
  ELSE IF m.method = "session/update" /\ m.update = "tool_call" THEN "tool_call"
  ELSE IF m.method = "session/update" /\ m.update = "tool_call_update" THEN "tool_update"
  ELSE IF m.method = "request_permission" THEN "permission_request"
  ELSE "unknown"

\* case 'text' of handleAcpMessage on record ws: append to a trailing assistant
\* message, else push a new one (and emit 'message'); nothing for an empty text.
\* A variant of the text branch that never coalesces: every chunk is a new message.
AppendTextAlwaysPush(hist, text) ==
  Append(hist, [role |-> "assistant", content |-> text])

\* A variant of the text branch that puts a later chunk in front of the text so far.
AppendTextPrepend(hist, text) ==
  IF Len(hist) > 0 /\ hist[Len(hist)].role = "assistant"
  THEN [hist EXCEPT ![Len(hist)].content = text \o @]
  ELSE Append(hist, [role |-> "assistant", content |-> text])

AppendText(hist, text) ==
  IF Len(hist) > 0 /\ hist[Len(hist)].role = "assistant"
  THEN [hist EXCEPT ![Len(hist)].content = @ \o text]
  ELSE Append(hist, [role |-> "assistant", content |-> text])

\* case 'tool_call': activeTools.get(id)?.set(data.id, toolInfo), status as sent.
ToolCall(tools, w, m) ==
  IF w \in DOMAIN tools
  THEN [tools EXCEPT ![w] = Put(@, m.tool, m.status)]
  ELSE tools

\* A variant of the tool_update branch that also stores the status of a tool it did
\* not know.
ToolUpdateUpsert(tools, w, m) ==
  IF w \in DOMAIN tools /\ m.tool # "none"
  THEN IF m.status \in {"completed", "failed"}
       THEN [tools EXCEPT ![w] = Drop(@, m.tool)]
       ELSE [tools EXCEPT ![w] = Put(@, m.tool, m.status)]
  ELSE tools

\* case 'tool_update': set the status of a known tool, delete it on a terminal status.
ToolUpdate(tools, w, m) ==
  IF w \in DOMAIN tools /\ m.tool # "none" /\ m.tool \in DOMAIN tools[w]
  THEN IF m.status \in {"completed", "failed"}
       THEN [tools EXCEPT ![w] = Drop(@, m.tool)]
       ELSE [tools EXCEPT ![w] = Put(@, m.tool, m.status)]
  ELSE tools

\* handleAcpMessage(workstreamId, message): the new table, tool table and the events
\* emitted, in order.  src is the arrival number of the envelope.
HandleAcpMessage(w, m, src) ==
  LET type == ParseSessionUpdate(m)
      same == [tbl |-> workstreams, tools |-> activeTools, evs |-> << >>]
      ev(t, tbl) == Event(w, t, src, tbl, pendingPermissions, permissionResolvers)
  IN  IF w \notin DOMAIN workstreams THEN same
      ELSE IF type = "text"
      THEN IF m.text = << >> THEN same
           ELSE LET hist == workstreams[w].messageHistory
                    pushed == ~(Len(hist) > 0 /\ hist[Len(hist)].role = "assistant")
                    tbl1 == [workstreams EXCEPT ![w].messageHistory = AppendText(hist, m.text)]
                    tbl2 == UpdateWorkstream(tbl1, w, [currentActivity |-> "text"])
                IN  [tbl |-> tbl2, tools |-> activeTools,
                     evs |-> IF pushed THEN << ev("message", tbl1) >> ELSE << >>]
      ELSE IF type = "thought"
      THEN IF m.text = << >> THEN same
           ELSE [same EXCEPT !.tbl =
                   UpdateWorkstream(workstreams, w, [currentActivity |-> "thought"])]
      ELSE IF type = "tool_call"
      THEN LET tbl1 == UpdateWorkstream(workstreams, w, [currentActivity |-> "tool"])
           IN  [tbl |-> tbl1, tools |-> ToolCall(activeTools, w, m),
                evs |-> << ev("tool_call", tbl1) >>]
      ELSE IF type = "tool_update"
      THEN [tbl |-> workstreams, tools |-> ToolUpdate(activeTools, w, m),
            evs |-> << ev("tool_update", workstreams) >>]
      ELSE IF type = "permission_request"
      THEN LET tbl1 == UpdateWorkstream(workstreams, w,
                         [status |-> "waiting",
                          currentActivity |-> "Waiting for permission..."])
               tbl2 == AddNotification(tbl1, w, "action_required")
           IN  [tbl |-> tbl2, tools |-> activeTools,
                evs |-> << ev("notification", tbl2), ev("permission_request", tbl2) >>]
      ELSE same

\* A variant of the request_permission handler that keeps the record and the
\* resolver of a request that is already pending.
PermissionHandlerKeepFirst(w, m, src) ==
  LET tbl1 == UpdateWorkstream(workstreams, w,
                [status |-> "waiting", currentActivity |-> "Permission needed"])
      tbl2 == AddNotification(tbl1, w, "action_required")
      ev1 == Event(w, "notification", src, tbl2, pendingPermissions, permissionResolvers)
      pend == IF w \in DOMAIN pendingPermissions THEN pendingPermissions
              ELSE Put(pendingPermissions, w, m.id)
      ev2 == Event(w, "permission_request", src, tbl2, pend, permissionResolvers)
      res == IF w \in DOMAIN permissionResolvers THEN permissionResolvers
             ELSE Put(permissionResolvers, w, m.id)
  IN  [tbl |-> tbl2, pend |-> pend, res |-> res, evs |-> << ev1, ev2 >>]

\* The handler connectWorkstream registers for 'request_permission', up to the
\* promise it returns: state waiting, notification, pending record, event, resolver.
PermissionHandler(w, m, src) ==
  LET tbl1 == UpdateWorkstream(workstreams, w,
                [status |-> "waiting", currentActivity |-> "Permission needed"])
      tbl2 == AddNotification(tbl1, w, "action_required")
      ev1 == Event(w, "notification", src, tbl2, pendingPermissions, permissionResolvers)
      pend == Put(pendingPermissions, w, m.id)
      ev2 == Event(w, "permission_request", src, tbl2, pend, permissionResolvers)
      res == Put(permissionResolvers, w, m.id)
  IN  [tbl |-> tbl2, pend |-> pend, res |-> res, evs |-> << ev1, ev2 >>]

\* Tasks of client w awaiting the response to outbound request id.
Awaiting(w, id) ==
  { t \in tasks : t.ws = w /\ t.req = id /\ t.kind # "perm" /\ t.ready = "no" }

\* A variant of the settlement that resolves the call whether or not the envelope
\* carries an error.
SettleAlwaysResolve(t, m, src) ==
  [t EXCEPT !.ready = "ok",
            !.via = "sse",
            !.src = src,
            !.val = IF m.method = "none" THEN "result" ELSE "undefined"]

\* pending.reject(new Error(message.error.message)) or pending.resolve(message.result)
\* for the call t that awaits the id of envelope m.
Settle(t, m, src) ==
  [t EXCEPT !.ready = IF m.error THEN "err" ELSE "ok",
            !.via = "sse",
            !.src = src,
            !.val = IF m.method = "none" THEN "result" ELSE "undefined"]

\* AcpClient.handleMessage(message) for one envelope of the event stream of client w.
HandleMessage(w, m) ==
  /\ w \in DOMAIN client
  /\ client[w].eventSource
  /\ \A t \in tasks : t.ready # "no" => (t.via = "sse" /\ t.ws = w)
  /\ inbound' = [inbound EXCEPT ![w] = @ + 1]
  /\ ret' = NoRet
  /\ LET src == inbound[w] + 1
     IN  IF m.id # NoId /\ m.id \in client[w].pendingRequests
         THEN \* a response to a pending request of ours
              /\ client' = [client EXCEPT ![w].pendingRequests = @ \ {m.id}]
              /\ tasks' = (tasks \ Awaiting(w, m.id))
                            \cup { Settle(t, m, src) : t \in Awaiting(w, m.id) }
              /\ events' = << >>
              /\ UNCHANGED << workstreams, activeTools, pendingPermissions,
                              permissionResolvers >>
         ELSE IF m.method # "none" /\ m.id # NoId /\ m.method \in client[w].requestHandlers
         THEN \* a request of the peer with a registered handler
              LET h == PermissionHandler(w, m, src)
              IN  /\ \A t \in tasks : ~(t.kind = "perm" /\ t.ws = w /\ t.req = m.id)
                  /\ w \in DOMAIN workstreams =>
                        Len(workstreams[w].notifications) < MaxNotif
                  /\ workstreams' = h.tbl
                  /\ pendingPermissions' = h.pend
                  /\ permissionResolvers' = h.res
                  /\ events' = h.evs
                  /\ tasks' = tasks \cup {Task("perm", w, "handler", m.id)}
                  /\ UNCHANGED << client, activeTools >>
         ELSE \* a notification, or a request nobody handles: the message handlers
              LET h == HandleAcpMessage(w, m, src)
              IN  /\ \A x \in DOMAIN h.tbl :
                       /\ Len(h.tbl[x].messageHistory) <= MaxHist
                       /\ Len(h.tbl[x].notifications) <= MaxNotif
                       /\ \A i \in 1..Len(h.tbl[x].messageHistory) :
                            Len(h.tbl[x].messageHistory[i].content) <= MaxContent
                  /\ workstreams' = h.tbl
                  /\ activeTools' = h.tools
                  /\ events' = h.evs
                  /\ UNCHANGED << client, tasks, pendingPermissions, permissionResolvers >>
  /\ sent' = << >>
  /\ UNCHANGED << clients, acpSessionIds, useWorktrees, isGitRepo, worktreeDirs,
                  branches, nextId >>
  /\ received' = Delivered(events').received
  /\ eventHandlers' = Delivered(events').handlers
  /\ UNCHANGED now

\* ------------------------------------------------------------- continuations
\* connectWorkstream after the response to 'initialize': send 'session/new'.
AfterInitialize(t, postOk) ==
  LET w == t.ws
      rq0 == SendRequest(client[w], w, "session/new", postOk)
      rq == [rq0 EXCEPT !.sent = [i \in 1..Len(rq0.sent) |->
                                    [rq0.sent[i] EXCEPT !.cwd = t.cwd]]]
      cl == [client EXCEPT ![w] = rq.client]
  IN  IF t.ready = "err" \/ rq.threw
      THEN /\ (t.ready = "err" => postOk)
           /\ IF t.ready = "err"
              THEN CreateFailed(w, t, t.src, client, << >>)
              ELSE CreateFailed(w, t, NoId, cl, rq.sent)
           /\ UNCHANGED acpSessionIds
      ELSE /\ client' = cl
           /\ sent' = rq.sent
           /\ tasks' = (tasks \ {t})
                          \cup {[Task("create", w, "session_new", rq.id) EXCEPT !.cwd = t.cwd]}
           /\ events' = << >>
           /\ ret' = NoRet
           /\ UNCHANGED << workstreams, acpSessionIds >>

\* connectWorkstream after the response to 'session/new': store the session id, state
\* running, emit status_change; createWorkstream then returns the record.
AfterSessionNew(t) ==
  LET w == t.ws
      tbl == UpdateWorkstream(workstreams, w,
               [acpSessionId |-> w, status |-> "running", currentActivity |-> "Ready"])
  IN  IF t.ready = "ok" /\ t.val = "result"
      THEN /\ acpSessionIds' = Put(acpSessionIds, w, w)
           /\ workstreams' = tbl
           /\ events' = << Event(w, "status_change", t.src, tbl, pendingPermissions,
                                 permissionResolvers) >>
           /\ ret' = Ret("createWorkstream", w, "none")
           /\ tasks' = tasks \ {t}
           /\ sent' = << >>
           /\ UNCHANGED client
      ELSE /\ CreateFailed(w, t, t.src, client, << >>)
           /\ UNCHANGED acpSessionIds

\* A variant of the continuation of sendPrompt that marks the workstream idle
\* whatever its state is.
AfterPromptAlwaysIdle(t) ==
  LET w == t.ws
      failed == UpdateWorkstream(workstreams, w,
                  [status |-> "error", currentActivity |-> "Error"])
  IN  /\ IF t.ready = "ok"
         THEN /\ workstreams' = UpdateWorkstream(workstreams, w,
                                  [currentActivity |-> "Idle - awaiting next instruction"])
              /\ events' = << >>
         ELSE /\ workstreams' = failed
              /\ events' = << Event(w, "error", t.src, failed, pendingPermissions,
                                    permissionResolvers) >>
      /\ ret' = Ret("sendPrompt", w, "none")
      /\ tasks' = tasks \ {t}
      /\ sent' = << >>
      /\ UNCHANGED << client, acpSessionIds >>

\* A variant of the continuation of sendPrompt that marks the work completed when the
\* response arrives.
AfterPromptCompletes(t) ==
  LET w == t.ws
      failed == UpdateWorkstream(workstreams, w,
                  [status |-> "error", currentActivity |-> "Error"])
  IN  /\ IF t.ready = "ok"
         THEN /\ workstreams' =
                   IF w \in DOMAIN workstreams /\ workstreams[w].status = "running"
                   THEN UpdateWorkstream(workstreams, w,
                          [status |-> "completed",
                           currentActivity |-> "Idle - awaiting next instruction"])
                   ELSE workstreams
              /\ events' = << >>
         ELSE /\ workstreams' = failed
              /\ events' = << Event(w, "error", t.src, failed, pendingPermissions,
                                    permissionResolvers) >>
      /\ ret' = Ret("sendPrompt", w, "none")
      /\ tasks' = tasks \ {t}
      /\ sent' = << >>
      /\ UNCHANGED << client, acpSessionIds >>

\* sendPrompt after 'session/prompt' settled: the idle heuristic, or the catch block.
AfterPrompt(t) ==
  LET w == t.ws
      failed == UpdateWorkstream(workstreams, w,
                  [status |-> "error", currentActivity |-> "Error"])
  IN  /\ IF t.ready = "ok"
         THEN /\ workstreams' =
                   IF w \in DOMAIN workstreams /\ workstreams[w].status = "running"
                   THEN UpdateWorkstream(workstreams, w,
                          [currentActivity |-> "Idle - awaiting next instruction"])
                   ELSE workstreams
              /\ events' = << >>
         ELSE /\ workstreams' = failed
              /\ events' = << Event(w, "error", t.src, failed, pendingPermissions,
                                    permissionResolvers) >>
      /\ ret' = Ret("sendPrompt", w, "none")
      /\ tasks' = tasks \ {t}
      /\ sent' = << >>
      /\ UNCHANGED << client, acpSessionIds >>

\* AcpClient.handleMessage after the request handler's promise resolved: POST the
\* result envelope with the peer's id; if that POST fails, POST an error envelope.
\* After disconnect() the session id is null and the POST goes to no session.
AfterHandler(t, postOk, postOk2) ==
  LET w == t.ws
      up == client[w].sessionId # NoId
      first == Post(w, "result", t.req, t.val, postOk)
      second == Post(w, "error", t.req, "-32000", postOk2)
  IN  /\ (~up => ~postOk /\ ~postOk2)
      /\ (postOk => postOk2)
      /\ sent' = IF postOk THEN << first >> ELSE << first, second >>
      /\ tasks' = tasks \ {t}
      /\ events' = << >>
      /\ ret' = NoRet
      /\ UNCHANGED << workstreams, client, acpSessionIds >>

\* One microtask: the continuation of an async call whose awaited promise settled.
ResumeTask(t, postOk, postOk2) ==
  /\ t \in tasks
  /\ t.ready # "no"
  /\ IF t.kind = "create" /\ t.pc = "initialize"
     THEN postOk2 /\ AfterInitialize(t, postOk)
     ELSE IF t.kind = "create"
     THEN postOk /\ postOk2 /\ AfterSessionNew(t)
     ELSE IF t.kind = "prompt"
     THEN postOk /\ postOk2 /\ AfterPrompt(t)
     ELSE AfterHandler(t, postOk, postOk2)
  /\ UNCHANGED << clients, activeTools, pendingPermissions, permissionResolvers,
                  useWorktrees, isGitRepo, inbound, worktreeDirs, branches, nextId >>
  /\ received' = Delivered(events').received
  /\ eventHandlers' = Delivered(events').handlers
  /\ UNCHANGED now

\* ------------------------------------------------------------- operator commands
\* sendPrompt(workstreamId, prompt) up to the wait for the response.
SendPrompt(w, postOk) ==
  /\ Quiet
  /\ w \in Minted
  /\ IF w \notin clients \/ w \notin DOMAIN acpSessionIds
     THEN /\ postOk
          /\ ret' = Ret("sendPrompt", w, "Workstream not connected")
          /\ events' = << >>
          /\ sent' = << >>
          /\ UNCHANGED << workstreams, client, tasks >>
     ELSE LET tbl1 == IF w \in DOMAIN workstreams
                      THEN [workstreams EXCEPT ![w].messageHistory =
                              Append(@, [role |-> "user", content |-> << "p" >>])]
                      ELSE workstreams
              tbl2 == UpdateWorkstream(tbl1, w,
                        [status |-> "running", currentActivity |-> "Processing..."])
              rq == SendRequest(client[w], w, "session/prompt", postOk)
              failed == UpdateWorkstream(tbl2, w,
                          [status |-> "error", currentActivity |-> "Error"])
          IN  /\ client[w].requestId < MaxReq
              /\ w \in DOMAIN workstreams => Len(workstreams[w].messageHistory) < MaxHist
              /\ client' = [client EXCEPT ![w] = rq.client]
              /\ sent' = rq.sent
              /\ IF rq.threw
                 THEN /\ workstreams' = failed
                      /\ events' = << Event(w, "error", NoId, failed, pendingPermissions,
                                            permissionResolvers) >>
                      /\ ret' = Ret("sendPrompt", w, "none")
                      /\ UNCHANGED tasks
                 ELSE /\ workstreams' = tbl2
                      /\ events' = << >>
                      /\ ret' = NoRet
                      /\ tasks' = tasks \cup {Task("prompt", w, "prompt", rq.id)}
  /\ UNCHANGED << clients, acpSessionIds, activeTools, pendingPermissions,
                  permissionResolvers, useWorktrees, isGitRepo, inbound, worktreeDirs,
                  branches, nextId >>
  /\ received' = Delivered(events').received
  /\ eventHandlers' = Delivered(events').handlers
  /\ UNCHANGED now

\* sendPrompt(workstreamId, prompt) followed one suspension at a time: up to the
\* fetch inside client.send(), which is in flight when the step ends.
SendPromptBegin(w) ==
  /\ Quiet
  /\ w \in Minted
  /\ w \in clients
  /\ w \in DOMAIN acpSessionIds
  /\ client[w].sessionId # NoId
  /\ client[w].requestId < MaxReq
  /\ w \in DOMAIN workstreams => Len(workstreams[w].messageHistory) < MaxHist
  /\ LET tbl1 == IF w \in DOMAIN workstreams
                 THEN [workstreams EXCEPT ![w].messageHistory =
                         Append(@, [role |-> "user", content |-> << "p" >>])]
                 ELSE workstreams
         rq == SendRequest(client[w], w, "session/prompt", TRUE)
     IN  /\ workstreams' = UpdateWorkstream(tbl1, w,
                             [status |-> "running", currentActivity |-> "Processing..."])
         /\ client' = [client EXCEPT ![w] = rq.client]
         /\ tasks' = tasks \cup {Task("prompt", w, "post", rq.id)}
  /\ sent' = << >>
  /\ events' = << >>
  /\ ret' = NoRet
  /\ UNCHANGED << clients, acpSessionIds, activeTools, pendingPermissions,
                  permissionResolvers, useWorktrees, isGitRepo, inbound, worktreeDirs,
                  branches, nextId >>
  /\ received' = Delivered(events').received
  /\ eventHandlers' = Delivered(events').handlers
  /\ UNCHANGED now

\* The fetch of client.send() for the session/prompt of call t completes: when the
\* remote accepted the POST the call goes on to wait for the response; otherwise
\* send throws and the catch block of sendPrompt runs.
PostDone(t, ok) ==
  /\ Quiet
  /\ t \in tasks
  /\ t.kind = "prompt" /\ t.pc = "post"
  /\ sent' = << Post(t.ws, "request", t.req, "session/prompt", ok) >>
  /\ IF ok
     THEN /\ tasks' = (tasks \ {t}) \cup {[t EXCEPT !.pc = "prompt"]}
          /\ events' = << >>
          /\ ret' = NoRet
          /\ UNCHANGED workstreams
     ELSE LET failed == UpdateWorkstream(workstreams, t.ws,
                          [status |-> "error", currentActivity |-> "Error"])
          IN  /\ tasks' = tasks \ {t}
              /\ workstreams' = failed
              /\ events' = << Event(t.ws, "error", NoId, failed, pendingPermissions,
                                    permissionResolvers) >>
              /\ ret' = Ret("sendPrompt", t.ws, "none")
  /\ UNCHANGED << clients, acpSessionIds, activeTools, pendingPermissions,
                  permissionResolvers, useWorktrees, isGitRepo, client, inbound,
                  worktreeDirs, branches, nextId >>
  /\ received' = Delivered(events').received
  /\ eventHandlers' = Delivered(events').handlers
  /\ UNCHANGED now

Options == { "a", "r" }

\* A variant of respondToPermission that writes the state before it looks for the
\* resolver.
RespondToPermissionLateCheck(w, o) ==
  /\ Quiet
  /\ w \in Minted
  /\ workstreams' = UpdateWorkstream(workstreams, w,
                      [status |-> "running", currentActivity |-> "Continuing..."])
  /\ IF w \notin DOMAIN permissionResolvers
     THEN /\ ret' = Ret("respondToPermission", w, "No pending permission request for this workstream")
          /\ UNCHANGED << tasks, pendingPermissions, permissionResolvers >>
     ELSE LET r == permissionResolvers[w]
              blocked == { t \in tasks : t.kind = "perm" /\ t.ws = w /\ t.req = r
                                         /\ t.ready = "no" }
          IN  /\ tasks' = (tasks \ blocked)
                            \cup { [t EXCEPT !.ready = "ok", !.via = "sync", !.val = o]
                                   : t \in blocked }
              /\ permissionResolvers' = Drop(permissionResolvers, w)
              /\ pendingPermissions' = Drop(pendingPermissions, w)
              /\ ret' = Ret("respondToPermission", w, "none")
  /\ events' = << >>
  /\ UNCHANGED << clients, acpSessionIds, activeTools, useWorktrees, isGitRepo, client,
                  inbound, worktreeDirs, branches, nextId >>
  /\ sent' = << >>
  /\ received' = Delivered(events').received
  /\ eventHandlers' = Delivered(events').handlers
  /\ UNCHANGED now

\* respondToPermission(workstreamId, optionId)
RespondToPermission(w, o) ==
  /\ Quiet
  /\ w \in Minted
  /\ IF w \notin DOMAIN permissionResolvers
     THEN /\ ret' = Ret("respondToPermission", w, "No pending permission request for this workstream")
          /\ UNCHANGED << workstreams, tasks, pendingPermissions, permissionResolvers >>
     ELSE LET r == permissionResolvers[w]
              blocked == { t \in tasks : t.kind = "perm" /\ t.ws = w /\ t.req = r
                                         /\ t.ready = "no" }
          IN  /\ tasks' = (tasks \ blocked)
                            \cup { [t EXCEPT !.ready = "ok", !.via = "sync", !.val = o]
                                   : t \in blocked }
              /\ permissionResolvers' = Drop(permissionResolvers, w)
              /\ pendingPermissions' = Drop(pendingPermissions, w)
              /\ workstreams' = UpdateWorkstream(workstreams, w,
                                  [status |-> "running", currentActivity |-> "Continuing..."])
              /\ ret' = Ret("respondToPermission", w, "none")
  /\ events' = << >>
  /\ UNCHANGED << clients, acpSessionIds, activeTools, useWorktrees, isGitRepo, client,
                  inbound, worktreeDirs, branches, nextId >>
  /\ sent' = << >>
  /\ received' = Delivered(events').received
  /\ eventHandlers' = Delivered(events').handlers
  /\ UNCHANGED now

\* pauseWorkstream(workstreamId)
PauseWorkstream(w) ==
  /\ Quiet
  /\ w \in Minted
  /\ LET tbl == UpdateWorkstream(workstreams, w,
                  [status |-> "paused", currentActivity |-> "Paused by user"])
     IN  /\ workstreams' = tbl
         /\ events' = << Event(w, "status_change", NoId, tbl, pendingPermissions,
                               permissionResolvers) >>
  /\ ret' = Ret("pauseWorkstream", w, "none")
  /\ UNCHANGED << clients, acpSessionIds, activeTools, pendingPermissions,
                  permissionResolvers, useWorktrees, isGitRepo, client, tasks,
                  inbound, worktreeDirs, branches, nextId >>
  /\ sent' = << >>
  /\ received' = Delivered(events').received
  /\ eventHandlers' = Delivered(events').handlers
  /\ UNCHANGED now

\* resumeWorkstream(workstreamId)
ResumeWorkstream(w) ==
  /\ Quiet
  /\ w \in Minted
  /\ LET tbl == UpdateWorkstream(workstreams, w,
                  [status |-> "running", currentActivity |-> "Resumed"])
     IN  /\ workstreams' = tbl
         /\ events' = << Event(w, "status_change", NoId, tbl, pendingPermissions,
                               permissionResolvers) >>
  /\ ret' = Ret("resumeWorkstream", w, "none")
  /\ UNCHANGED << clients, acpSessionIds, activeTools, pendingPermissions,
                  permissionResolvers, useWorktrees, isGitRepo, client, tasks,
                  inbound, worktreeDirs, branches, nextId >>
  /\ sent' = << >>
  /\ received' = Delivered(events').received
  /\ eventHandlers' = Delivered(events').handlers
  /\ UNCHANGED now

\* AcpClient.disconnect()
Disconnect(c) ==
  [c EXCEPT !.eventSource = FALSE, !.sessionId = NoId, !.pendingRequests = {},
            !.requestHandlers = {}]

\* The calls stopWorkstream makes: client.disconnect() and the provider's remove.
StopCalls(disconnects, removes) ==
  (IF disconnects THEN << "disconnect" >> ELSE << >>)
    \o (IF removes THEN << "removeWorktree" >> ELSE << >>)

\* A variant of stopWorkstream without the try/catch around the provider's remove: a
\* failure of remove is raised to the caller and the record stays.
StopWorkstreamRaising(w, cleanup, rmOk) ==
  /\ Quiet
  /\ w \in Minted
  /\ LET remove == /\ cleanup
                   /\ w \in DOMAIN workstreams
                   /\ workstreams[w].worktreePath # Null
                   /\ useWorktrees
         rm == RemoveWorktree(worktreeDirs, branches, workstreams[w].name, rmOk)
         threw == remove /\ rm.threw
     IN  /\ (~remove => rmOk)
         /\ client' = IF w \in clients THEN [client EXCEPT ![w] = Disconnect(@)] ELSE client
         /\ clients' = clients \ {w}
         /\ worktreeDirs' = IF remove THEN rm.dirs ELSE worktreeDirs
         /\ branches' = IF remove THEN rm.brs ELSE branches
         /\ workstreams' = IF threw THEN workstreams ELSE Drop(workstreams, w)
         /\ acpSessionIds' = IF threw THEN acpSessionIds ELSE Drop(acpSessionIds, w)
         /\ activeTools' = IF threw THEN activeTools ELSE Drop(activeTools, w)
         /\ ret' = [Ret("stopWorkstream", w, IF threw THEN "failed" ELSE "none")
                      EXCEPT !.calls = StopCalls(w \in clients, remove)]
  /\ events' = << >>
  /\ UNCHANGED << pendingPermissions, permissionResolvers, useWorktrees, isGitRepo,
                  tasks, inbound, nextId >>
  /\ sent' = << >>
  /\ received' = Delivered(events').received
  /\ eventHandlers' = Delivered(events').handlers
  /\ UNCHANGED now

\* stopWorkstream(workstreamId, cleanup)
StopWorkstream(w, cleanup, rmOk) ==
  /\ Quiet
  /\ w \in Minted
  /\ LET remove == /\ cleanup
                   /\ w \in DOMAIN workstreams
                   /\ workstreams[w].worktreePath # Null
                   /\ useWorktrees
         rm == RemoveWorktree(worktreeDirs, branches, workstreams[w].name, rmOk)
     IN  /\ (~remove => rmOk)
         /\ client' = IF w \in clients THEN [client EXCEPT ![w] = Disconnect(@)] ELSE client
         /\ clients' = clients \ {w}
         /\ worktreeDirs' = IF remove THEN rm.dirs ELSE worktreeDirs
         /\ branches' = IF remove THEN rm.brs ELSE branches
         /\ workstreams' = Drop(workstreams, w)
         /\ acpSessionIds' = Drop(acpSessionIds, w)
         /\ activeTools' = Drop(activeTools, w)
         /\ ret' = [Ret("stopWorkstream", w, "none")
                      EXCEPT !.calls = StopCalls(w \in clients, remove)]
  /\ events' = << >>
  /\ UNCHANGED << pendingPermissions, permissionResolvers, useWorktrees, isGitRepo,
                  tasks, inbound, nextId >>
  /\ sent' = << >>
  /\ received' = Delivered(events').received
  /\ eventHandlers' = Delivered(events').handlers
  /\ UNCHANGED now

\* eventSource.onerror: every error handler runs; the coordinator's emits 'error'
\* and then sets the state.
SseError(w) ==
  /\ Quiet
  /\ w \in DOMAIN client
  /\ client[w].eventSource
  /\ events' = << Event(w, "error", NoId, workstreams, pendingPermissions,
                        permissionResolvers) >>
  /\ workstreams' = UpdateWorkstream(workstreams, w,
                      [status |-> "error", currentActivity |-> "Connection error"])
  /\ ret' = NoRet
  /\ UNCHANGED << clients, acpSessionIds, activeTools, pendingPermissions,
                  permissionResolvers, useWorktrees, isGitRepo, client, tasks,
                  inbound, worktreeDirs, branches, nextId >>
  /\ sent' = << >>
  /\ received' = Delivered(events').received
  /\ eventHandlers' = Delivered(events').handlers
  /\ UNCHANGED now

\* onEvent(handler): register an observer.
OnEvent(o) ==
  /\ Quiet
  /\ eventHandlers' = Append(eventHandlers, o)
  /\ events' = << >>
  /\ ret' = NoRet
  /\ UNCHANGED << workstreams, clients, acpSessionIds, activeTools, pendingPermissions,
                  permissionResolvers, useWorktrees, isGitRepo, client, tasks,
                  inbound, worktreeDirs, branches, nextId, received, now >>
  /\ sent' = << >>

\* The handle onEvent returned, called: the first occurrence of the handler leaves
\* the list; nothing happens when it is not in the list.
Unsubscribe(o) ==
  /\ Quiet
  /\ eventHandlers' =
       IF Copies(o) = 0 THEN eventHandlers
       ELSE LET idx == CHOOSE i \in 1..Len(eventHandlers) :
                         /\ eventHandlers[i] = o
                         /\ \A j \in 1..(i - 1) : eventHandlers[j] # o
            IN  SubSeq(eventHandlers, 1, idx - 1)
                  \o SubSeq(eventHandlers, idx + 1, Len(eventHandlers))
  /\ events' = << >>
  /\ ret' = NoRet
  /\ UNCHANGED << workstreams, clients, acpSessionIds, activeTools, pendingPermissions,
                  permissionResolvers, useWorktrees, isGitRepo, client, tasks,
                  inbound, worktreeDirs, branches, nextId, received, now >>
  /\ sent' = << >>

\* Time passes between two runs of the coordinator: new Date() reads a later value.
Tick ==
  /\ now < MaxClock
  /\ now' = now + 1
  /\ events' = << >>
  /\ sent' = << >>
  /\ ret' = NoRet
  /\ UNCHANGED << workstreams, clients, acpSessionIds, activeTools, pendingPermissions,
                  permissionResolvers, useWorktrees, isGitRepo, client, tasks,
                  inbound, worktreeDirs, branches, nextId, eventHandlers, received >>

\* ------------------------------------------------------------- the client alone
\* AcpClient.sendNotification(method) on client object c.
SendNotification(c, w, method, postOk) ==
  IF c.sessionId = NoId
  THEN [client |-> c, sent |-> << >>, threw |-> TRUE]
  ELSE [client |-> c, sent |-> << Post(w, "notification", NoId, method, postOk) >>,
        threw |-> ~postOk]

\* What a failed client call raises.
SendError(c) == IF c.sessionId = NoId THEN "Not connected" ELSE "Failed to send message"

\* new AcpClient(config), held by a caller under key k (the single-agent App).
ClientNew(k) ==
  /\ k \notin DOMAIN client
  /\ client' = Put(client, k, NewClient)
  /\ inbound' = Put(inbound, k, 0)
  /\ ret' = NoRet
  /\ sent' = << >>
  /\ events' = << >>
  /\ UNCHANGED << workstreams, clients, acpSessionIds, activeTools, pendingPermissions,
                  permissionResolvers, useWorktrees, isGitRepo, tasks, worktreeDirs,
                  branches, nextId, eventHandlers, received, now >>

\* client.connect(), from the call to the end of its fetch.
ClientConnect(k, ok) ==
  /\ k \in DOMAIN client
  /\ client' = IF ok THEN [client EXCEPT ![k].sessionId = k, ![k].eventSource = TRUE]
                ELSE client
  /\ ret' = Ret("connect", k, IF ok THEN "none" ELSE "Failed to create session")
  /\ sent' = << >>
  /\ events' = << >>
  /\ UNCHANGED << workstreams, clients, acpSessionIds, activeTools, pendingPermissions,
                  permissionResolvers, useWorktrees, isGitRepo, tasks, inbound,
                  worktreeDirs, branches, nextId, eventHandlers, received, now >>

\* client.sendRequest(method), from the call to the end of its POST.
ClientSendRequest(k, method, postOk) ==
  /\ k \in DOMAIN client
  /\ client[k].requestId < MaxReq
  /\ LET rq == SendRequest(client[k], k, method, postOk)
     IN  /\ (client[k].sessionId = NoId => postOk)
         /\ client' = [client EXCEPT ![k] = rq.client]
         /\ sent' = rq.sent
         /\ ret' = Ret("sendRequest", k, IF rq.threw THEN SendError(client[k]) ELSE "none")
  /\ events' = << >>
  /\ UNCHANGED << workstreams, clients, acpSessionIds, activeTools, pendingPermissions,
                  permissionResolvers, useWorktrees, isGitRepo, tasks, inbound,
                  worktreeDirs, branches, nextId, eventHandlers, received, now >>

\* client.sendNotification(method), from the call to the end of its POST.
ClientSendNotification(k, method, postOk) ==
  /\ k \in DOMAIN client
  /\ LET nt == SendNotification(client[k], k, method, postOk)
     IN  /\ (client[k].sessionId = NoId => postOk)
         /\ client' = [client EXCEPT ![k] = nt.client]
         /\ sent' = nt.sent
         /\ ret' = Ret("sendNotification", k,
                        IF nt.threw THEN SendError(client[k]) ELSE "none")
  /\ events' = << >>
  /\ UNCHANGED << workstreams, clients, acpSessionIds, activeTools, pendingPermissions,
                  permissionResolvers, useWorktrees, isGitRepo, tasks, inbound,
                  worktreeDirs, branches, nextId, eventHandlers, received, now >>

\* client.disconnect()
ClientDisconnect(k) ==
  /\ k \in DOMAIN client
  /\ client' = [client EXCEPT ![k] = Disconnect(@)]
  /\ ret' = Ret("disconnect", k, "none")
  /\ sent' = << >>
  /\ events' = << >>
  /\ UNCHANGED << workstreams, clients, acpSessionIds, activeTools, pendingPermissions,
                  permissionResolvers, useWorktrees, isGitRepo, tasks, inbound,
                  worktreeDirs, branches, nextId, eventHandlers, received, now >>

\* ------------------------------------------------------------- specifications
Responses == { Response(id, e) : id \in 1..MaxReq, e \in BOOLEAN }

PermissionRequests == { PermissionRequest(id) : id \in 0..MaxPeerId }

Texts == { << >>, << "a" >> }

Chunks == { Update("agent_message_chunk", x, "none", "none") : x \in Texts }

\* Outbound ids of the lifecycle: initialize, session/new and prompts up to this id.
LifecycleReq == 3

LifecycleEnvelopes ==
  { Response(id, e) : id \in 1..LifecycleReq, e \in BOOLEAN } \cup PermissionRequests

\* The lifecycle specification follows one workstream: the coordinator keys all its
\* per-workstream state by the workstream id.
LifecycleIds == { 1 }

\* The lifecycle of a workstream: every coordinator operation, the handshake and the
\* permission protocol.
Next ==
  \/ \E raw \in {<< "a" >>}, rmOk, addOk \in BOOLEAN :
       nextId \in LifecycleIds /\ CreateWorkstream(raw, rmOk, addOk)
  \/ \E w \in Minted, ok, postOk \in BOOLEAN : ConnectDone(w, ok, postOk)
  \/ \E w \in Minted, m \in LifecycleEnvelopes :
       inbound[w] < MaxInbound /\ HandleMessage(w, m)
  \/ \E t \in tasks, postOk, postOk2 \in BOOLEAN : ResumeTask(t, postOk, postOk2)
  \/ \E w \in Minted, postOk \in BOOLEAN :
       /\ w \in DOMAIN client => client[w].requestId < LifecycleReq
       /\ SendPrompt(w, postOk)
  \/ \E w \in Minted, o \in Options : RespondToPermission(w, o)
  \/ \E w \in Minted : PauseWorkstream(w)
  \/ \E w \in Minted : ResumeWorkstream(w)
  \/ \E w \in Minted, cleanup, rmOk \in BOOLEAN : StopWorkstream(w, cleanup, rmOk)
  \/ \E w \in Minted : SseError(w)

Spec == Init /\ [][Next]_vars

\* The session-update stream seen by an observer: the handshake, prompts, agent text
\* and thoughts, and envelopes the parser does not know.
Others == { Update("agent_thought_chunk", << "a" >>, "none", "none"),
            Update("plan", << >>, "none", "none") }

StreamEnvelopes == Responses \cup Chunks \cup Others

StreamNext ==
  \/ \E o \in Plain : Copies(o) = 0 /\ OnEvent(o)
  \/ \E raw \in {<< "a" >>}, rmOk, addOk \in BOOLEAN :
       nextId \in LifecycleIds /\ CreateWorkstream(raw, rmOk, addOk)
  \/ \E w \in Minted, ok, postOk \in BOOLEAN : ConnectDone(w, ok, postOk)
  \/ \E w \in Minted, m \in StreamEnvelopes :
       inbound[w] < StreamInbound /\ HandleMessage(w, m)
  \/ \E t \in tasks, postOk, postOk2 \in BOOLEAN : ResumeTask(t, postOk, postOk2)
  \/ \E w \in Minted, postOk \in BOOLEAN : SendPrompt(w, postOk)

StreamSpec == Init /\ [][StreamNext]_vars

\* Observers coming and going while a workstream emits: registrations (the same
\* handler at most MaxHandlers times), deregistrations, the handshake and agent text.
MaxHandlers == 2

FanoutInbound == 3

FanoutEnvelopes == { Response(id, FALSE) : id \in 1..2 } \cup Chunks

FanoutNext ==
  \/ \E o \in Observers : Len(eventHandlers) < MaxHandlers /\ OnEvent(o)
  \/ \E o \in Observers : Unsubscribe(o)
  \/ \E raw \in {<< "a" >>}, rmOk, addOk \in BOOLEAN :
       nextId \in LifecycleIds /\ CreateWorkstream(raw, rmOk, addOk)
  \/ \E w \in Minted, ok, postOk \in BOOLEAN : ConnectDone(w, ok, postOk)
  \/ \E w \in Minted, m \in FanoutEnvelopes :
       inbound[w] < FanoutInbound /\ HandleMessage(w, m)
  \/ \E t \in tasks, postOk, postOk2 \in BOOLEAN : ResumeTask(t, postOk, postOk2)

FanoutSpec == Init /\ [][FanoutNext]_vars

\* Agent text arriving in pieces: the handshake, prompts of the operator, chunks
\* with two different texts or none, and thoughts between them.
CoalesceTexts == { << >>, << "a" >>, << "b" >> }

CoalesceInbound == 5

CoalesceEnvelopes ==
  { Response(id, FALSE) : id \in 1..2 }
    \cup { Update("agent_message_chunk", x, "none", "none") : x \in CoalesceTexts }
    \cup { Update("agent_thought_chunk", << "a" >>, "none", "none") }

CoalesceNext ==
  \/ \E o \in Plain : Len(eventHandlers) = 0 /\ OnEvent(o)
  \/ \E raw \in {<< "a" >>}, rmOk, addOk \in BOOLEAN :
       nextId \in LifecycleIds /\ CreateWorkstream(raw, rmOk, addOk)
  \/ \E w \in Minted, ok, postOk \in BOOLEAN : ConnectDone(w, ok, postOk)
  \/ \E w \in Minted, m \in CoalesceEnvelopes :
       inbound[w] < CoalesceInbound /\ HandleMessage(w, m)
  \/ \E t \in tasks, postOk, postOk2 \in BOOLEAN : ResumeTask(t, postOk, postOk2)
  \/ \E w \in Minted, postOk \in BOOLEAN : SendPrompt(w, postOk)

CoalesceSpec == Init /\ [][CoalesceNext]_vars

\* Inbound events under a running clock: the handshake and one envelope of every
\* kind the parser tells apart, with time passing between them.
ClockInbound == 4

ClockUpdates ==
  { Update("agent_message_chunk", << >>, "none", "none"),
    Update("agent_message_chunk", << "a" >>, "none", "none"),
    Update("agent_thought_chunk", << "a" >>, "none", "none"),
    Update("tool_call", << >>, "t1", "pending"),
    Update("tool_call_update", << >>, "t1", "completed"),
    Update("plan", << >>, "none", "none"),
    PermissionRequest(NoId) }

ClockEnvelopes == { Response(id, FALSE) : id \in 1..2 } \cup ClockUpdates

ClockNext ==
  \/ Tick
  \/ \E raw \in {<< "a" >>}, rmOk, addOk \in BOOLEAN :
       nextId \in LifecycleIds /\ CreateWorkstream(raw, rmOk, addOk)
  \/ \E w \in Minted, ok, postOk \in BOOLEAN : ConnectDone(w, ok, postOk)
  \/ \E w \in Minted, m \in ClockEnvelopes :
       inbound[w] < ClockInbound /\ HandleMessage(w, m)
  \/ \E t \in tasks, postOk, postOk2 \in BOOLEAN : ResumeTask(t, postOk, postOk2)

ClockSpec == Init /\ [][ClockNext]_vars

\* Prompts in flight: the handshake, then sendPrompt as often as MaxReq allows, and
\* the responses of the remote in any order.
PromptInbound == 4

PromptNext ==
  \/ \E raw \in {<< "a" >>}, rmOk, addOk \in BOOLEAN :
       nextId \in LifecycleIds /\ CreateWorkstream(raw, rmOk, addOk)
  \/ \E w \in Minted, ok, postOk \in BOOLEAN : ConnectDone(w, ok, postOk)
  \/ \E w \in Minted, m \in Responses :
       inbound[w] < PromptInbound /\ HandleMessage(w, m)
  \/ \E t \in tasks, postOk, postOk2 \in BOOLEAN : ResumeTask(t, postOk, postOk2)
  \/ \E w \in Minted, postOk \in BOOLEAN : SendPrompt(w, postOk)

PromptSpec == Init /\ [][PromptNext]_vars

\* Tool calls of a session: the handshake, then tool_call and tool_call_update
\* notifications with any status the remote may send.
Statuses == { "pending", "in_progress", "completed", "failed" }

ToolIds == { "t1", "t2" }

ToolCalls == { Update("tool_call", << >>, t, st) : t \in ToolIds, st \in Statuses }

ToolUpdates == { Update("tool_call_update", << >>, t, st) : t \in ToolIds, st \in Statuses }

ToolEnvelopes == { Response(id, FALSE) : id \in 1..2 } \cup ToolCalls \cup ToolUpdates

ToolNext ==
  \/ \E raw \in {<< "a" >>}, rmOk, addOk \in BOOLEAN :
       nextId \in LifecycleIds /\ CreateWorkstream(raw, rmOk, addOk)
  \/ \E w \in Minted, ok, postOk \in BOOLEAN : ConnectDone(w, ok, postOk)
  \/ \E w \in Minted, m \in ToolEnvelopes :
       inbound[w] < ToolInbound /\ HandleMessage(w, m)
  \/ \E t \in tasks, postOk, postOk2 \in BOOLEAN : ResumeTask(t, postOk, postOk2)
  \/ \E w \in Minted, cleanup, rmOk \in BOOLEAN : StopWorkstream(w, cleanup, rmOk)

ToolSpec == Init /\ [][ToolNext]_vars

\* Working copies of several workstreams: creation under every raw name, the end of
\* connect(), and stopping with or without cleanup.
IsolationNext ==
  \/ \E raw \in RawNames, rmOk, addOk \in BOOLEAN :
       nextId <= MaxWs /\ CreateWorkstream(raw, rmOk, addOk)
  \/ \E w \in Minted, ok, postOk \in BOOLEAN : ConnectDone(w, ok, postOk)
  \/ \E w \in Minted, cleanup, rmOk \in BOOLEAN : StopWorkstream(w, cleanup, rmOk)

IsolationSpec == Init /\ [][IsolationNext]_vars

\* Names given to createWorkstream: the example of the documentation, and names of
\* every length up to MaxNameLen made by repeating a short pattern.
Example ==
  << "H", "e", "l", "l", "o", ",", " ", "W", "o", "r", "l", "d", "!", " ", "1", "2", "3" >>

Repeat(pattern, n) == [i \in 1..n |-> pattern[((i - 1) % Len(pattern)) + 1]]

Patterns == { << "a" >>, << "A", "_" >>, << "Z", " ", "9", "-" >> }

SanitizerInputs == { Example } \cup { Repeat(q, n) : q \in Patterns, n \in 0..MaxNameLen }

SanitizerNext ==
  \E raw \in SanitizerInputs, rmOk, addOk \in BOOLEAN :
    nextId \in LifecycleIds /\ CreateWorkstream(raw, rmOk, addOk)

SanitizerSpec == Init /\ [][SanitizerNext]_vars

\* Teardown while calls are in flight: the handshake, a prompt whose POST and whose
\* response are separate suspensions, and stopWorkstream between them.
Handshake == { Response(id, FALSE) : id \in 1..2 }

TeardownNext ==
  \/ \E raw \in {<< "a" >>}, rmOk, addOk \in BOOLEAN :
       nextId \in LifecycleIds /\ CreateWorkstream(raw, rmOk, addOk)
  \/ \E w \in Minted, ok, postOk \in BOOLEAN : ConnectDone(w, ok, postOk)
  \/ \E w \in Minted, m \in Handshake :
       inbound[w] < MaxInbound /\ HandleMessage(w, m)
  \/ \E t \in tasks, postOk, postOk2 \in BOOLEAN : ResumeTask(t, postOk, postOk2)
  \/ \E w \in Minted : SendPromptBegin(w)
  \/ \E t \in tasks, ok \in BOOLEAN : PostDone(t, ok)
  \/ \E w \in Minted, cleanup, rmOk \in BOOLEAN : StopWorkstream(w, cleanup, rmOk)

TeardownSpec == Init /\ [][TeardownNext]_vars

\* The transport client used on its own: construction, connect, requests and
\* notifications, responses from the stream, disconnect.
ClientKeys == { 1 }

Methods == { "initialize", "session/prompt" }

ClientInbound == 3

ClientNext ==
  \/ \E k \in ClientKeys : ClientNew(k)
  \/ \E k \in ClientKeys, ok \in BOOLEAN : ClientConnect(k, ok)
  \/ \E k \in ClientKeys, method \in Methods, postOk \in BOOLEAN :
       ClientSendRequest(k, method, postOk)
  \/ \E k \in ClientKeys, postOk \in BOOLEAN :
       ClientSendNotification(k, "session/cancel", postOk)
  \/ \E k \in ClientKeys, m \in Responses :
       k \in DOMAIN inbound /\ inbound[k] < ClientInbound /\ HandleMessage(k, m)
  \/ \E k \in ClientKeys : ClientDisconnect(k)

ClientSpec == Init /\ [][ClientNext]_vars

\* ------------------------------------------------------------- properties
\* C1 (P1): for every workstream the pending-permission table and the resolver table
\* hold an entry together or not at all (each is a map, so 0 or 1 entry), in every
\* reachable state and in every state an observer callback reads while an event is
\* being delivered to it.
P1_TablesAgree ==
  /\ DOMAIN pendingPermissions = DOMAIN permissionResolvers
  /\ \A i \in 1..Len(events) : (events[i].pending # NoId) <=> (events[i].resolver # NoId)

\* C2 (permission round-trip): when the remote has sent request_permission with id r
\* to workstream w and the operator then calls respondToPermission(w, o), the handler
\* of r resumes with o and POSTs one result envelope with id r and optionId o (one
\* envelope only, unless the remote rejects that POST); the call leaves w running
\* and the pending-permission and resolver entries of w empty.
RoundTrip ==
  [][ \A w \in Minted :
        /\ \A o \in Options :
             (w \in DOMAIN permissionResolvers /\ RespondToPermission(w, o)) =>
               /\ \A t \in tasks :
                    (t.kind = "perm" /\ t.ws = w /\ t.ready = "no") =>
                      [t EXCEPT !.ready = "ok", !.via = "sync", !.val = o] \in tasks'
               /\ w \in DOMAIN workstreams' => workstreams'[w].status = "running"
               /\ w \notin DOMAIN pendingPermissions'
               /\ w \notin DOMAIN permissionResolvers'
        /\ \A t \in tasks \ tasks' :
             (t.kind = "perm" /\ t.ws = w /\ t.ready = "ok") =>
               /\ Len(sent') >= 1
               /\ sent'[1].kind = "result" /\ sent'[1].id = t.req /\ sent'[1].payload = t.val
               /\ sent'[1].ok => Len(sent') = 1 ]_vars

\* C3 (event order): for two inbound envelopes e and f that arrive in that order on
\* one session, an observer receives every event derived from e before every event
\* derived from f.
EventsInArrivalOrder ==
  \A o \in Observers : \A i, j \in 1..Len(received[o]) :
    ( /\ i < j
      /\ received[o][i].ws = received[o][j].ws
      /\ received[o][i].src # NoId
      /\ received[o][j].src # NoId ) => received[o][i].src <= received[o][j].src

\* C4 (M1): no two adjacent entries of a workstream's message history both have the
\* role assistant, whatever the interleaving of agent text chunks and prompts.
M1_NoAdjacentAssistant ==
  \A w \in DOMAIN workstreams :
    \A i \in 1..(Len(workstreams[w].messageHistory) - 1) :
      ~ ( /\ workstreams[w].messageHistory[i].role = "assistant"
          /\ workstreams[w].messageHistory[i + 1].role = "assistant" )

\* Reached: a chunk, a prompt, then two chunks coalesced into one assistant message.
M1_Coalesced ==
  \E w \in DOMAIN workstreams :
    LET h == workstreams[w].messageHistory
    IN  /\ Len(h) = 3
        /\ h[1].role = "assistant"
        /\ h[2].role = "user"
        /\ h[3].role = "assistant"
        /\ Len(h[3].content) = 2

\* C5 (T1): every entry of activeTools[w] has status pending, whatever statuses the
\* remote sends in tool_call and tool_call_update.
T1_ActiveToolsPending ==
  \A w \in DOMAIN activeTools :
    \A t \in DOMAIN activeTools[w] : activeTools[w][t] = "pending"

\* C6 (isolation): two workstreams in the table never record the same working-copy
\* path or branch, and creating or stopping one workstream never removes the working
\* copy another workstream records, also when their names are equal or sanitize to
\* the same string.
Isolation ==
  /\ [] ( \A v, w \in DOMAIN workstreams :
            (v # w /\ workstreams[v].worktreePath # Null) =>
              /\ workstreams[v].worktreePath # workstreams[w].worktreePath
              /\ workstreams[v].branchName # workstreams[w].branchName )
  /\ [][ \A w \in DOMAIN workstreams \cap DOMAIN workstreams' :
           LET name == workstreams[w].name
           IN  ( /\ workstreams[w].worktreePath # Null
                 /\ name \in DOMAIN worktreeDirs
                 /\ worktreeDirs[name] = w ) =>
                 ( name \in DOMAIN worktreeDirs' /\ worktreeDirs'[name] = w ) ]_vars

\* C7 (error is terminal): a workstream in state error stays in state error as long
\* as it is in the table; only stopWorkstream, which removes it, ends the state.
ErrorIsTerminal ==
  [][ \A w \in DOMAIN workstreams \cap DOMAIN workstreams' :
        workstreams[w].status = "error" => workstreams'[w].status = "error" ]_vars

\* C8 (paused): sendPrompt on a paused workstream sends no prompt to the remote
\* session and leaves the workstream paused.
PausedRefusesPrompt ==
  [][ \A w \in DOMAIN workstreams :
        ( /\ workstreams[w].status = "paused"
          /\ \E postOk \in BOOLEAN : SendPrompt(w, postOk) ) =>
          /\ sent' = << >>
          /\ w \in DOMAIN workstreams'
          /\ workstreams'[w].status = "paused" ]_vars

\* C9 (waiting): a workstream in state waiting leaves that state only by
\* respondToPermission or by stopWorkstream (which removes it from the table).
WaitingUntilAnswered ==
  [][ \A w \in DOMAIN workstreams \cap DOMAIN workstreams' :
        ( /\ workstreams[w].status = "waiting"
          /\ workstreams'[w].status # "waiting" ) =>
          \E o \in Options : RespondToPermission(w, o) ]_vars

\* C10 (no resolver): respondToPermission for a workstream with no resolver entry
\* fails with 'No pending permission request', changes no workstream state, no
\* table of the permission protocol and no blocked handler, and sends nothing.
NoResolverFails ==
  [][ \A w \in Minted :
        ( /\ w \notin DOMAIN permissionResolvers
          /\ ret'.op = "respondToPermission"
          /\ ret'.ws = w ) =>
          /\ ret'.err = "No pending permission request for this workstream"
          /\ sent' = << >>
          /\ events' = << >>
          /\ UNCHANGED << workstreams, pendingPermissions, permissionResolvers, tasks,
                          client, activeTools, acpSessionIds >> ]_vars

\* Reached: the call failed on a workstream that waits for a permission (the request
\* came without an id, so no resolver was stored) and the workstream still waits.
NoResolverFailed ==
  /\ ret.op = "respondToPermission"
  /\ ret.err = "No pending permission request for this workstream"
  /\ ret.ws \in DOMAIN workstreams
  /\ ret.ws \notin DOMAIN permissionResolvers
  /\ workstreams[ret.ws].status = "waiting"

\* C11 (stop): when stopWorkstream(w, cleanup) returns, it returned without error,
\* the client of w is disconnected and no longer kept, and w is absent from the
\* workstream table, the session mapping and the tool tables; with cleanup and a
\* recorded working copy the provider's remove was called exactly once, and the
\* record is removed whether or not remove failed.
StopRemovesWorkstream ==
  [][ \A w \in Minted :
        /\ (ret'.op = "stopWorkstream" /\ ret'.ws = w) =>
              /\ ret'.err = "none"
              /\ w \notin clients'
              /\ w \in clients =>
                    /\ ret'.calls[1] = "disconnect"
                    /\ ~client'[w].eventSource
                    /\ client'[w].sessionId = NoId
                    /\ client'[w].pendingRequests = {}
              /\ w \notin DOMAIN workstreams'
              /\ w \notin DOMAIN acpSessionIds'
              /\ w \notin DOMAIN activeTools'
        /\ \A rmOk \in BOOLEAN :
              ( /\ StopWorkstream(w, TRUE, rmOk)
                /\ w \in DOMAIN workstreams
                /\ workstreams[w].worktreePath # Null ) =>
                /\ Cardinality({ i \in 1..Len(ret'.calls) :
                                   ret'.calls[i] = "removeWorktree" }) = 1
                /\ w \notin DOMAIN workstreams' ]_vars

\* Reached: a stop with cleanup whose remove failed; the working copy is still on
\* disk and the record is gone.
StopAfterFailedRemove ==
  /\ ret.op = "stopWorkstream"
  /\ ret.calls = << "disconnect", "removeWorktree" >>
  /\ ret.ws \notin DOMAIN workstreams
  /\ \E n \in DOMAIN worktreeDirs : worktreeDirs[n] = ret.ws

\* C12 (stop is idempotent): stopWorkstream on an id that was already stopped returns
\* without error, changes no coordinator state and calls neither the transport nor
\* the working-copy provider.
StopIsIdempotent ==
  [][ \A w \in Minted :
        ( /\ ret'.op = "stopWorkstream"
          /\ ret'.ws = w
          /\ w \notin DOMAIN workstreams
          /\ w \notin clients ) =>
          /\ ret'.err = "none"
          /\ ret'.calls = << >>
          /\ sent' = << >>
          /\ events' = << >>
          /\ UNCHANGED << workstreams, clients, acpSessionIds, activeTools,
                          pendingPermissions, permissionResolvers, client, tasks,
                          worktreeDirs, branches, eventHandlers, received >> ]_vars

\* C13 (abandoned handler): once stopWorkstream(w) has removed a workstream whose
\* request_permission handler is blocked, no reply envelope for a request of the
\* peer is sent on behalf of w any more, and respondToPermission(w, o) fails with
\* 'No pending permission request'.
StoppedHandlerAbandoned ==
  [][ \A w \in Minted :
        w \notin DOMAIN workstreams =>
          /\ \A i \in 1..Len(sent') :
                sent'[i].ws = w => sent'[i].kind \notin { "result", "error" }
          /\ (ret'.op = "respondToPermission" /\ ret'.ws = w) =>
                ret'.err = "No pending permission request for this workstream" ]_vars

\* C14 (W2): a workstream that is running, waiting or paused has a remote session
\* id, and a workstream with a remote session id is not starting.
W2_SessionIffConnected ==
  \A w \in DOMAIN workstreams :
    /\ workstreams[w].status \in { "running", "waiting", "paused" } =>
          workstreams[w].acpSessionId # NoId
    /\ workstreams[w].acpSessionId # NoId => workstreams[w].status # "starting"

\* C15 (W3): for every workstream, branchName is set if and only if worktreePath is
\* set.
W3_BranchIffPath ==
  \A w \in DOMAIN workstreams :
    (workstreams[w].branchName # Null) <=> (workstreams[w].worktreePath # Null)

\* Reached: a workstream whose working copy was created; both fields are set.
W3_BothSet ==
  \E w \in DOMAIN workstreams :
    /\ workstreams[w].worktreePath = WorktreePath(workstreams[w].name)
    /\ workstreams[w].branchName = BranchName(workstreams[w].name)

\* C16 (handshake order): initialize is sent only when connect() has returned a
\* session, session/new only when the response to initialize was received,
\* session/prompt only when session/new has returned a session id, and a workstream
\* becomes running only when session/new has succeeded.
HandshakeOrder ==
  [][ \A w \in Minted :
        /\ \A i \in 1..Len(sent') :
              (sent'[i].ws = w /\ sent'[i].kind = "request") =>
                /\ sent'[i].payload = "initialize" =>
                      /\ \E t \in tasks : t.kind = "create" /\ t.ws = w /\ t.pc = "connect"
                      /\ client'[w].sessionId # NoId
                /\ sent'[i].payload = "session/new" =>
                      \E t \in tasks : /\ t.kind = "create" /\ t.ws = w
                                        /\ t.pc = "initialize" /\ t.ready = "ok"
                /\ sent'[i].payload = "session/prompt" => w \in DOMAIN acpSessionIds
        /\ ( /\ w \in DOMAIN workstreams'
             /\ workstreams'[w].status = "running"
             /\ w \in DOMAIN workstreams => workstreams[w].status # "running" ) =>
             w \in DOMAIN acpSessionIds' ]_vars

\* C17 (connect failure): when connect(), initialize or session/new fails during
\* createWorkstream, the call fails, one 'error' event is emitted for the workstream,
\* and the record, if it is in the table, stays there with state error (which is
\* what the observer of the event reads).
CreateFailureReported ==
  [][ \A w \in Minted :
        /\ ( \/ \E t \in tasks \ tasks' :
                   /\ t.kind = "create" /\ t.ws = w
                   /\ (t.ready = "err" \/ (t.pc = "session_new" /\ t.val = "undefined"))
             \/ \E i \in 1..Len(sent') :
                   /\ sent'[i].ws = w /\ ~sent'[i].ok
                   /\ sent'[i].payload \in { "initialize", "session/new" } ) =>
             (ret'.op = "createWorkstream" /\ ret'.ws = w /\ ret'.err = "failed")
        /\ (ret'.op = "createWorkstream" /\ ret'.ws = w /\ ret'.err # "none") =>
             /\ Len(events') = 1
             /\ events'[1].type = "error"
             /\ events'[1].ws = w
             /\ w \in DOMAIN workstreams =>
                   /\ w \in DOMAIN workstreams'
                   /\ workstreams'[w].status = "error"
                   /\ events'[1].status = "error" ]_vars

\* Reached: createWorkstream failed because the remote answered session/new with an
\* error; the record is in the table in state error.
CreateFailedOnSessionNew ==
  /\ ret.op = "createWorkstream"
  /\ ret.err = "failed"
  /\ ret.ws \in DOMAIN workstreams
  /\ workstreams[ret.ws].status = "error"
  /\ ret.ws \in DOMAIN client
  /\ client[ret.ws].requestId = 2
  /\ Len(events) = 1
  /\ events[1].src # NoId

\* C18 (working-copy failure): when createWorktree fails during createWorkstream the
\* workstream gets an error notification, keeps worktreePath and branchName absent,
\* stays in state starting, goes on to connect, and its session/new carries the
\* repository root as cwd.
WorktreeFailureAbsorbed ==
  [][ /\ ( /\ nextId' = nextId + 1
           /\ useWorktrees /\ isGitRepo
           /\ workstreams'[nextId].worktreePath = Null ) =>
           /\ workstreams'[nextId].notifications = << "error" >>
           /\ workstreams'[nextId].branchName = Null
           /\ workstreams'[nextId].status = "starting"
           /\ Len(events') = 1 /\ events'[1].type = "notification"
           /\ \E t \in tasks' : /\ t.kind = "create" /\ t.ws = nextId
                                 /\ t.pc = "connect" /\ t.cwd = RepoPath
      /\ \A i \in 1..Len(sent') :
           ( /\ sent'[i].payload = "session/new"
             /\ sent'[i].ws \in DOMAIN workstreams
             /\ workstreams[sent'[i].ws].worktreePath = Null ) =>
             sent'[i].cwd = RepoPath ]_vars

\* Reached: session/new was sent with the repository root as cwd for a workstream
\* whose working copy could not be created.
ConnectedWithoutWorktree ==
  /\ Len(sent) = 1
  /\ sent[1].payload = "session/new"
  /\ sent[1].cwd = RepoPath
  /\ sent[1].ws \in DOMAIN workstreams
  /\ workstreams[sent[1].ws].notifications = << "error" >>
  /\ workstreams[sent[1].ws].status = "starting"
  /\ workstreams[sent[1].ws].worktreePath = Null

\* C19 (request/response correlation): the request ids of a client strictly
\* increase; an inbound envelope whose id is in the pending map removes that entry
\* and settles exactly the call that awaits it, rejecting when the envelope has an
\* error and resolving otherwise; an envelope whose id is not in the map settles
\* nothing; no call is settled twice.
Correlation ==
  [][ \A w \in DOMAIN client :
        /\ w \in DOMAIN client' /\ client'[w].requestId >= client[w].requestId
        /\ \A i \in 1..Len(sent') :
              (sent'[i].ws = w /\ sent'[i].kind = "request") =>
                /\ sent'[i].id = client[w].requestId + 1
                /\ sent'[i].id = client'[w].requestId
                /\ \A j \in 1..Len(sent') :
                      (sent'[j].ws = w /\ sent'[j].kind = "request") => j = i
        /\ \A m \in LifecycleEnvelopes :
              HandleMessage(w, m) =>
                IF m.id # NoId /\ m.id \in client[w].pendingRequests
                THEN /\ client'[w].pendingRequests = client[w].pendingRequests \ {m.id}
                     /\ \A t \in tasks :
                           IF t.ws = w /\ t.kind # "perm" /\ t.req = m.id /\ t.ready = "no"
                           THEN /\ t \notin tasks'
                                /\ \E u \in tasks' :
                                      /\ u = [t EXCEPT !.ready = u.ready, !.via = u.via,
                                                       !.src = u.src, !.val = u.val]
                                      /\ u.ready = IF m.error THEN "err" ELSE "ok"
                           ELSE t \in tasks'
                     /\ Cardinality(tasks') = Cardinality(tasks)
                ELSE /\ client'[w].pendingRequests = client[w].pendingRequests
                     /\ \A t \in tasks : t \in tasks'
                     /\ \A u \in tasks' \ tasks : u.kind = "perm" /\ u.ready = "no"
        /\ \A t \in tasks :
              (t.ws = w /\ t.kind # "perm" /\ t.ready # "no") =>
                \A u \in tasks' :
                  (u.ws = w /\ u.kind = t.kind /\ u.pc = t.pc /\ u.req = t.req) => u = t ]_vars

\* Reached: a call was rejected by an error response and a further envelope has
\* arrived on the same stream since; the call is still settled once.
RejectedOnce ==
  \E t \in tasks :
    /\ t.kind # "perm"
    /\ t.ready = "err"
    /\ t.via = "sse"
    /\ t.req \notin client[t.ws].pendingRequests
    /\ t.src < inbound[t.ws]

\* C20 (peer requests): an inbound envelope with a method and an id is a request of
\* the peer whatever its id: when a handler is registered for the method the handler
\* is invoked, and the envelope settles none of the client's own pending calls.
PeerRequestsReachHandler ==
  [][ \A w \in DOMAIN client : \A m \in PermissionRequests :
        ( /\ m.id # NoId
          /\ m.method \in client[w].requestHandlers
          /\ HandleMessage(w, m) ) =>
          /\ \E t \in tasks' \ tasks : t.kind = "perm" /\ t.ws = w /\ t.req = m.id
          /\ client'[w].pendingRequests = client[w].pendingRequests
          /\ \A t \in tasks : t.kind # "perm" => t \in tasks' ]_vars

\* C21 (one reply per peer request): for a request of the peer with id r and a
\* registered handler the client POSTs one reply envelope with id r, a result or an
\* error with code -32000, never both.
OneReplyPerRequest ==
  [][ \A i, j \in 1..Len(sent') :
        ( /\ sent'[i].kind \in { "result", "error" }
          /\ sent'[j].kind \in { "result", "error" }
          /\ sent'[i].ws = sent'[j].ws
          /\ sent'[i].id = sent'[j].id ) => i = j ]_vars

\* C22 (not connected): sendRequest and sendNotification on a client without a
\* session (before connect() completed, or after disconnect()) fail with 'Not
\* connected', POST nothing, add no pending entry and leave the client as it was.
NotConnectedFails ==
  [][ \A k \in DOMAIN client :
        ( /\ ret'.op \in { "sendRequest", "sendNotification" }
          /\ ret'.ws = k
          /\ client[k].sessionId = NoId ) =>
          /\ ret'.err = "Not connected"
          /\ sent' = << >>
          /\ client' = client ]_vars

\* Reached: sendRequest failed on a client that had sent requests and was then
\* disconnected.
RefusedAfterDisconnect ==
  /\ ret.op = "sendRequest"
  /\ ret.err = "Not connected"
  /\ ret.ws \in DOMAIN client
  /\ client[ret.ws].requestId > 0
  /\ client[ret.ws].sessionId = NoId
  /\ client[ret.ws].pendingRequests = {}

\* C23 (abandoned calls): disconnect() rejects nothing, so a sendPrompt that is in
\* flight when its workstream is stopped stays suspended for ever: it never
\* returns, and no event is emitted for the stopped workstream.
AbandonedCallsStaySilent ==
  [][ \A t \in tasks :
        ( /\ t.kind = "prompt"
          /\ t.ws \notin clients
          /\ t.ws \notin DOMAIN workstreams ) =>
          /\ \E u \in tasks' :
                u.kind = "prompt" /\ u.ws = t.ws /\ u.req = t.req /\ u.ready = "no"
          /\ ~(ret'.op = "sendPrompt" /\ ret'.ws = t.ws)
          /\ \A i \in 1..Len(events') : events'[i].ws # t.ws ]_vars

\* C24 (second request replaces): a request_permission that arrives while another
\* is pending for the workstream replaces the pending record and the resolver; the
\* handler of the earlier request stays blocked, no reply with its id is sent, and
\* respondToPermission resolves the later request only.
SecondRequestReplaces ==
  [][ \A w \in Minted :
        /\ \A m \in PermissionRequests :
              ( /\ w \in DOMAIN permissionResolvers
                /\ HandleMessage(w, m)
                /\ \E t \in tasks' \ tasks : t.kind = "perm" ) =>
                /\ pendingPermissions'[w] = m.id
                /\ permissionResolvers'[w] = m.id
        /\ \A t \in tasks :
              ( /\ t.kind = "perm" /\ t.ws = w /\ t.ready = "no"
                /\ w \in DOMAIN permissionResolvers => permissionResolvers[w] # t.req ) =>
                /\ t \in tasks'
                /\ \A i \in 1..Len(sent') :
                      ~ ( /\ sent'[i].ws = w
                          /\ sent'[i].kind \in { "result", "error" }
                          /\ sent'[i].id = t.req ) ]_vars

\* Reached: two requests arrived, the operator answered, and the reply to the later
\* request has been sent while the handler of the earlier one is still blocked.
EarlierRequestDropped ==
  \E t \in tasks :
    /\ t.kind = "perm" /\ t.ready = "no"
    /\ t.ws \notin DOMAIN permissionResolvers
    /\ t.ws \notin DOMAIN pendingPermissions
    /\ Len(sent) = 1
    /\ sent[1].kind = "result" /\ sent[1].ws = t.ws /\ sent[1].id # t.req

\* C25 (name sanitizer): the name createWorkstream stores is the raw name
\* lower-cased, with every character outside [a-z0-9-] replaced by '-', cut to at
\* most 50 characters; "Hello, World! 123" gives "hello--world--123".
SanitizerCorrect ==
  [][ \A raw \in SanitizerInputs :
        ( /\ nextId \in LifecycleIds
          /\ \E rmOk, addOk \in BOOLEAN : CreateWorkstream(raw, rmOk, addOk) ) =>
          LET out == workstreams'[nextId].name
          IN  /\ Len(out) <= 50
              /\ Len(out) = IF Len(raw) < 50 THEN Len(raw) ELSE 50
              /\ \A i \in 1..Len(out) :
                    /\ out[i] \in SafeChars
                    /\ out[i] = IF Lower(raw[i]) \in SafeChars THEN Lower(raw[i]) ELSE "-"
              /\ raw = Example =>
                    out = << "h", "e", "l", "l", "o", "-", "-", "w", "o", "r", "l", "d",
                             "-", "-", "1", "2", "3" >> ]_vars

\* Reached: a name longer than 50 characters was given and the stored name is its
\* first 50 characters, sanitized.
NameTruncated ==
  \E w \in DOMAIN workstreams :
    /\ workstreams[w].name = Repeat(<< "z", "-", "9", "-" >>, 50)
    /\ workstreams[w].worktreePath = WorktreePath(workstreams[w].name)

\* C26 (provider failures): no call the coordinator makes to the working-copy
\* provider throws; createWorktree and removeWorktree that cannot complete return to
\* their caller instead.
ProviderNeverThrows ==
  [][ /\ \A raw \in RawNames, rmOk, addOk \in BOOLEAN :
           ( /\ useWorktrees /\ isGitRepo
             /\ CreateWorkstream(raw, rmOk, addOk) ) =>
             ~ CreateWorktree(worktreeDirs, branches, Sanitize(raw), nextId,
                              rmOk, addOk).threw
      /\ \A w \in Minted, rmOk \in BOOLEAN :
           ( /\ w \in DOMAIN workstreams
             /\ workstreams[w].worktreePath # Null
             /\ useWorktrees
             /\ StopWorkstream(w, TRUE, rmOk) ) =>
             ~ RemoveWorktree(worktreeDirs, branches, workstreams[w].name, rmOk).threw
    ]_vars

\* C27 (unbuffered fan-out): an observer with no registration in the handler list
\* receives nothing, so registering replays no history and nothing arrives after the
\* deregister handle was called; whatever an observer receives in a step is an event
\* emitted in that step.
Unbuffered ==
  [][ \A o \in Observers :
        /\ Copies(o) = 0 => received'[o] = received[o]
        /\ Len(received'[o]) >= Len(received[o])
        /\ SubSeq(received'[o], 1, Len(received[o])) = received[o]
        /\ \A i \in (Len(received[o]) + 1)..Len(received'[o]) :
              \E j \in 1..Len(events') :
                 /\ events'[j].ws = received'[o][i].ws
                 /\ events'[j].type = received'[o][i].type
                 /\ events'[j].src = received'[o][i].src ]_vars

\* Reached: an observer that received events and then deregistered is not in the
\* handler list while the workstream emits a further event.
EmittedAfterUnsubscribe ==
  \E o \in Observers :
    /\ Copies(o) = 0
    /\ Len(received[o]) > 0
    /\ Len(events) > 0

\* C28 (permission request arrival): when a request_permission request with id r
\* arrives for workstream w, w becomes waiting, exactly one action_required
\* notification is appended, the pending permission of w is r, the notification
\* event is emitted before the permission_request event that carries r, and the
\* resolver respondToPermission needs is recorded.
PermissionArrival ==
  [][ \A w \in Minted, r \in 1..MaxPeerId :
        ( /\ w \in DOMAIN workstreams
          /\ HandleMessage(w, PermissionRequest(r)) ) =>
          /\ w \in DOMAIN workstreams'
          /\ workstreams'[w].status = "waiting"
          /\ workstreams'[w].notifications =
               Append(workstreams[w].notifications, "action_required")
          /\ w \in DOMAIN pendingPermissions' /\ pendingPermissions'[w] = r
          /\ w \in DOMAIN permissionResolvers' /\ permissionResolvers'[w] = r
          /\ Len(events') = 2
          /\ events'[1].ws = w /\ events'[1].type = "notification"
          /\ events'[2].ws = w /\ events'[2].type = "permission_request"
          /\ events'[2].pending = r ]_vars

\* C29 (chunk coalescing): a chunk with a non-empty text that arrives when the
\* history is empty or ends with an operator message starts a run: it adds one agent
\* message holding its text and emits one message event; every further chunk of the
\* run appends its text at the end of that message and emits nothing, so a run
\* t1..tn leaves one agent message t1+...+tn and one message event, whatever else
\* (thoughts, empty chunks) arrives in between.
ChunksCoalesce ==
  [][ \A w \in Minted, x \in CoalesceTexts \ { << >> } :
        ( /\ w \in DOMAIN workstreams
          /\ HandleMessage(w, Update("agent_message_chunk", x, "none", "none")) ) =>
          LET hist == workstreams[w].messageHistory
              after == workstreams'[w].messageHistory
          IN  IF Len(hist) = 0 \/ hist[Len(hist)].role = "user"
              THEN /\ after = Append(hist, [role |-> "assistant", content |-> x])
                   /\ Len(events') = 1
                   /\ events'[1].ws = w /\ events'[1].type = "message"
              ELSE /\ Len(after) = Len(hist)
                   /\ \A i \in 1..(Len(hist) - 1) : after[i] = hist[i]
                   /\ after[Len(hist)].role = "assistant"
                   /\ after[Len(hist)].content = hist[Len(hist)].content \o x
                   /\ events' = << >> ]_vars

\* Reached: three chunks "a", "b", "a" arrived after the operator's prompt; the
\* history holds the prompt and one agent message "aba", and the observer that was
\* registered throughout received one message event.
ThreeChunksOneMessage ==
  \E w \in DOMAIN workstreams :
    /\ workstreams[w].messageHistory =
         << [role |-> "user", content |-> << "p" >>],
            [role |-> "assistant", content |-> << "a", "b", "a" >>] >>
    /\ Copies("o1") = 1
    /\ Cardinality({ i \in 1..Len(received["o1"]) :
                       received["o1"][i].type = "message" }) = 1
    /\ Cardinality({ i \in 1..Len(received["o1"]) :
                       received["o1"][i].type = "status_change" }) = 1

\* C30 (tool lifecycle): a tool_call_update with status completed or failed for an id
\* in activeTools[w] removes that id and no other; a tool_call_update for an id that
\* is not in activeTools[w] leaves the tool table, the record of the workstream (its
\* state and message history included) and the table of workstreams as they were.
ToolLifecycle ==
  [][ \A w \in Minted, m \in ToolUpdates :
        HandleMessage(w, m) =>
          IF w \in DOMAIN activeTools /\ m.tool \in DOMAIN activeTools[w]
          THEN /\ w \in DOMAIN activeTools'
               /\ m.status \in { "completed", "failed" } =>
                    /\ m.tool \notin DOMAIN activeTools'[w]
                    /\ activeTools'[w] = Drop(activeTools[w], m.tool)
               /\ workstreams' = workstreams
          ELSE /\ activeTools' = activeTools
               /\ workstreams' = workstreams
               /\ DOMAIN workstreams' = DOMAIN workstreams ]_vars

\* Reached: on a running workstream two tools were started and an update was
\* handled; t1 has left the table and t2 is still in it.
ToolRemoved ==
  \E w \in DOMAIN workstreams :
    /\ workstreams[w].status = "running"
    /\ w \in DOMAIN activeTools
    /\ DOMAIN activeTools[w] = { "t2" }
    /\ inbound[w] = 5
    /\ Len(events) = 1 /\ events[1].type = "tool_update" /\ events[1].ws = w

\* C31 (lastActivity): every inbound event handled for a workstream in the table --
\* a text chunk, empty or not, a thought, a tool_call, a tool_call_update, a
\* permission request, an update of unknown kind -- leaves the lastActivity of the
\* workstream at the value the clock has when the event is handled.
LastActivityFollowsEvents ==
  [][ \A w \in Minted, m \in ClockUpdates :
        ( /\ w \in DOMAIN workstreams
          /\ HandleMessage(w, m) ) =>
          /\ w \in DOMAIN workstreams'
          /\ workstreams'[w].lastActivity = now ]_vars

\* C32 (sendPrompt): on a connected workstream sendPrompt appends one operator
\* message and POSTs one session/prompt, leaving the state running with activity
\* 'Processing...'; when the response arrives and the state is still running the
\* activity becomes 'Idle - awaiting next instruction' and the state stays; when the
\* state changed meanwhile the record is left alone; when the POST or the request
\* fails the state is error and one error event is emitted.
PromptContract ==
  [][ \A w \in Minted :
        /\ \A postOk \in BOOLEAN :
             ( /\ w \in clients /\ w \in DOMAIN acpSessionIds /\ w \in DOMAIN workstreams
               /\ SendPrompt(w, postOk) ) =>
               /\ workstreams'[w].messageHistory =
                    Append(workstreams[w].messageHistory,
                           [role |-> "user", content |-> << "p" >>])
               /\ Len(sent') = 1
               /\ sent'[1].kind = "request" /\ sent'[1].payload = "session/prompt"
               /\ sent'[1].ws = w
               /\ IF postOk
                  THEN /\ workstreams'[w].status = "running"
                       /\ workstreams'[w].currentActivity = "Processing..."
                       /\ events' = << >>
                  ELSE /\ workstreams'[w].status = "error"
                       /\ Len(events') = 1
                       /\ events'[1].type = "error" /\ events'[1].ws = w
        /\ \A t \in tasks :
             ( /\ t.kind = "prompt" /\ t.ws = w /\ w \in DOMAIN workstreams
               /\ ResumeTask(t, TRUE, TRUE) ) =>
               IF t.ready = "ok"
               THEN /\ events' = << >>
                    /\ workstreams'[w].status = workstreams[w].status
                    /\ IF workstreams[w].status = "running"
                       THEN workstreams'[w].currentActivity =
                              "Idle - awaiting next instruction"
                       ELSE workstreams'[w] = workstreams[w]
               ELSE /\ workstreams'[w].status = "error"
                    /\ Len(events') = 1
                    /\ events'[1].type = "error" /\ events'[1].ws = w ]_vars

\* Reached: the response to a prompt arrived after the workstream had been paused;
\* sendPrompt has returned and the record still says paused.
PromptReturnedWhilePaused ==
  \E w \in DOMAIN workstreams :
    /\ ret.op = "sendPrompt" /\ ret.ws = w /\ ret.err = "none"
    /\ workstreams[w].status = "paused"
    /\ workstreams[w].currentActivity # "Idle - awaiting next instruction"
    /\ Len(workstreams[w].messageHistory) > 0
    /\ events = << >>

\* C33 (unreachable states): no workstream in the table, and no state an observer
\* reads while an event is delivered, is reviewing or completed; the coordinator
\* only ever writes starting, running, waiting, paused and error.
NeverReviewingOrCompleted ==
  /\ \A w \in DOMAIN workstreams :
       /\ workstreams[w].status \notin { "reviewing", "completed" }
       /\ workstreams[w].status \in { "starting", "running", "waiting", "paused", "error" }
  /\ \A i \in 1..Len(events) : events[i].status \notin { "reviewing", "completed" }

\* Reached: the response to a prompt has arrived and sendPrompt has returned with
\* the workstream idle, the point where finished work could have been marked.
IdleAfterPrompt ==
  \E w \in DOMAIN workstreams :
    /\ ret.op = "sendPrompt" /\ ret.ws = w /\ ret.err = "none"
    /\ workstreams[w].status = "running"
    /\ workstreams[w].currentActivity = "Idle - awaiting next instruction"

\* C34 (tables under interleaving): at every moment, also when stopWorkstream(id)
\* ran while createWorkstream for id was suspended, the keys of the client table, of
\* the session-id table and of the tool table are keys of the workstream table, and
\* the client made for an id that has left the table has no session and no open
\* event stream.
StoppedStaysTornDown ==
  /\ clients \subseteq DOMAIN workstreams
  /\ DOMAIN acpSessionIds \subseteq DOMAIN workstreams
  /\ DOMAIN activeTools \subseteq DOMAIN workstreams
  /\ \A w \in Minted \ DOMAIN workstreams :
       w \in DOMAIN client =>
         /\ ~ client[w].eventSource
         /\ client[w].sessionId = NoId

\* C35 (delivery to every subscriber): an observer that is in the handler list once
\* and does not deregister from inside its callback is called exactly once with
\* every event emitted, in order, also when another observer calls its own
\* deregister handle while the event is delivered.
EveryObserverOnce ==
  [][ \A o \in Plain :
        Copies(o) = 1 => received'[o] = received[o] \o Calls(events', 1) ]_vars

\* C36 (waiting has a way out): a workstream whose state is waiting has a pending
\* permission record and a resolver, so respondToPermission can answer; this holds
\* however request_permission arrived, as a request with an id or as an envelope
\* with the method and no id.
WaitingHasResolver ==
  \A w \in DOMAIN workstreams :
    workstreams[w].status = "waiting" =>
      /\ w \in DOMAIN pendingPermissions
      /\ w \in DOMAIN permissionResolvers

\* C37 (events of live workstreams only): every event is emitted for a workstream
\* that is in the table when the observers are called; nothing is emitted for an id
\* stopWorkstream has removed, also by a createWorkstream, sendPrompt or permission
\* handler that was in flight when it was stopped.
EventsOnlyForLive ==
  \A i \in 1..Len(events) :
    /\ events[i].status # "absent"
    /\ events[i].ws \in Minted

\* C38 (error state before error event): when an observer is called with an error
\* event of a workstream that is in the table, the state it reads for that
\* workstream is already error, for failures of the handshake or of a send and for
\* errors of the event stream alike.
ErrorEventSeesErrorState ==
  \A i \in 1..Len(events) :
    ( /\ events[i].type = "error"
      /\ events[i].ws \in DOMAIN workstreams
      /\ events[i].status # "absent" ) => events[i].status = "error"

\* C39 (idle only when nothing is outstanding): the continuation of sendPrompt sets
\* the activity 'Idle - awaiting next instruction' only when no session/prompt of
\* the workstream is still waiting for its response.
IdleOnlyWhenNoPromptOutstanding ==
  \A w \in DOMAIN workstreams :
    workstreams[w].currentActivity = "Idle - awaiting next instruction" =>
      \A t \in tasks : ~ (t.kind = "prompt" /\ t.ws = w)

\* C40 (pending map): a sendRequest that fails -- 'Not connected', or the POST of
\* its envelope rejected -- leaves no entry for its id in the pending map: the map
\* holds only ids of calls that still await a response.
FailedRequestLeavesNoEntry ==
  [][ \A k \in DOMAIN client :
        ( /\ ret'.op = "sendRequest"
          /\ ret'.ws = k
          /\ ret'.err # "none" ) =>
          client'[k].pendingRequests \subseteq client[k].pendingRequests ]_vars

====
